---- MODULE Spec2Model ----
(***************************************************************************)
(* Evaluation & Integrity Engine of the assessment platform.               *)
(*                                                                         *)
(*   core/anti_cheat.py   AntiCheatEngine  (integrity scorer, detectors)   *)
(*   core/evaluator.py    Evaluator        (MCQ / subjective / coding)     *)
(*   core/llm_client.py   LLMClient        (generate_json, _parse_json)    *)
(*                                                                         *)
(* Numbers.  Python floats are modelled in exact fixed point:              *)
(*   - integrity scores are in hundredths of a point (100.0 -> 10000);     *)
(*   - resume-match scores are in tenths of a point  (50.0  -> 500);       *)
(*   - similarities / plagiarism scores are in hundredths (0.85 -> 85).    *)
(* Strings are sequences of atoms (one-character strings, or an            *)
(* indivisible non-blank chunk such as an error message).                  *)
(***************************************************************************)
EXTENDS Integers, Sequences, FiniteSets, TLC

VARIABLES
    \* ---- AntiCheatEngine.full_integrity_check (one call) ----
    ic_pc,                 \* position inside full_integrity_check
    flags,                 \* the local list flags
    resume_match_score,    \* Optional[float], tenths
    timing_score,          \* float
    plagiarism_score,      \* float, hundredths
    integrity_score,       \* the local integrity_score, hundredths
    report,                \* the AntiCheatReport returned, or NoReport
    calc,                  \* a direct call of _calculate_integrity_score
    \* ---- Evaluator (one call of evaluate_candidate, evaluate_mcqs or
    \*      _run_test_cases) ----
    ev_pc,                 \* position inside the call
    ev_caller,             \* who called _run_test_cases: "direct" / "candidate"
    assessment,            \* the Assessment argument
    responses,             \* the responses argument
    mcq_results,           \* local mcq_results
    subj_results,          \* local subj_results
    code_results,          \* local code_results
    subj_i,                \* position of "for q in assessment.subjective_questions"
    code_i,                \* position of "for q in assessment.coding_questions"
    rt_code,               \* _run_test_cases: argument code
    rt_language,           \* _run_test_cases: argument language
    rt_test_cases,         \* _run_test_cases: argument test_cases
    rt_i,                  \* _run_test_cases: position of the loop (1-based)
    rt_results,            \* _run_test_cases: local results
    rt_calls,              \* how often _execute_code was called per test case
    rt_outcomes,           \* how each execution ended (ExecutionKind)
    evaluation,            \* the CandidateEvaluation returned, or NoEvaluation
    mcq_call,              \* a direct call of evaluate_mcqs
    llm_fault,             \* which generative call of evaluate_candidate raised
    \* ---- direct calls of single operations ----
    subj_call,             \* a direct call of evaluate_subjective
    coding_call,           \* a direct call of evaluate_coding
    timing_call,           \* a direct call of check_timing_anomalies
    guess_call,            \* a direct call of check_random_guessing
    plag_call,             \* a direct call of check_code_plagiarism
    exec_call,             \* a direct call of _execute_code
    fic_call,              \* a direct call of full_integrity_check
    \* ---- LLMClient._generate_groq (one call) ----
    groq_pc,               \* position inside the call
    groq_attempt,          \* the loop variable attempt
    groq_posts,            \* the outcomes of the HTTP requests sent, in order
    groq_waits,            \* the arguments of asyncio.sleep, in order
    groq_result,           \* what the call returned or raised
    \* ---- main.py: the submission endpoints and their database ----
    submissions,           \* the rows of table candidate_submissions
    eval_requests          \* the evaluate_submission requests in flight

ic_vars == <<ic_pc, flags, resume_match_score, timing_score, plagiarism_score,
             integrity_score, report, calc>>

ev_vars == <<ev_pc, ev_caller, assessment, responses, mcq_results, subj_results,
             code_results, subj_i, code_i, rt_code, rt_language, rt_test_cases,
             rt_i, rt_results, rt_calls, rt_outcomes, evaluation, mcq_call,
             llm_fault>>

call_vars == <<subj_call, coding_call, timing_call, guess_call, plag_call,
               exec_call, fic_call>>

groq_vars == <<groq_pc, groq_attempt, groq_posts, groq_waits, groq_result>>

db_vars == <<submissions, eval_requests>>

io_vars == <<groq_vars, db_vars>>

vars == <<ic_vars, ev_vars, call_vars, io_vars>>

\* no call of _generate_groq is running and no endpoint has been called yet
IoIdle ==
    /\ groq_pc = "idle"
    /\ submissions = <<>>
    /\ \A k \in DOMAIN eval_requests : eval_requests[k].pc = "none"

----------------------------------------------------------------------------
(* Bounds of the model *)

\* longest flag list handed directly to _calculate_integrity_score
MaxFlags == 3
\* most entries of the "mismatches" list in the generative service's answer
MaxMismatches == 1
\* longest run of equal entries in a response_timings / mcq_results input
MaxRun == 4
\* most (my_code, other_code) pairs compared by check_code_plagiarism
MaxPairs == 1
\* most subjective results scanned by check_copy_paste_patterns
MaxSubjResults == 3
\* most questions of an assessment handed to evaluate_candidate (all three lists)
MaxQuestions == 3
\* most MCQ questions of a direct call of evaluate_mcqs
MaxMcq == 2
\* longest mcq_answers list
MaxAnswers == 2
\* most test cases of a direct call of _run_test_cases
MaxTests == 2
\* longest run of equal entries in the input of a direct call of
\* check_timing_anomalies / check_random_guessing
MaxCallRun == 7
\* most code submissions of one candidate in all_candidate_codes
MaxCodes == 2

----------------------------------------------------------------------------
(* Program constants *)

\* settings.PLAGIARISM_THRESHOLD = 0.85, in hundredths
PLAGIARISM_THRESHOLD == 85
\* settings.RESUME_MISMATCH_THRESHOLD * 100 = 40.0, in tenths of a point
RESUME_MISMATCH_THRESHOLD_PCT == 400
\* settings.MIN_TIME_PER_QUESTION = 5 seconds
MIN_TIME_PER_QUESTION == 5

----------------------------------------------------------------------------
(* Generic helpers *)

Max(a, b) == IF a >= b THEN a ELSE b
Min(a, b) == IF a <= b THEN a ELSE b

RECURSIVE SeqSum(_)
SeqSum(s) == IF s = <<>> THEN 0 ELSE Head(s) + SeqSum(Tail(s))

\* all sequences over S of length 0..n
SeqsUpTo(S, n) == UNION { [1..k -> S] : k \in 0..n }

\* k copies of x
Rep(x, k) == [i \in 1..k |-> x]

RECURSIVE FlatMap(_, _)
\* concatenation of Op(s[1]), Op(s[2]), ...
FlatMap(Op(_), s) == IF s = <<>> THEN <<>> ELSE Op(Head(s)) \o FlatMap(Op, Tail(s))

Count(s, P(_)) == Cardinality({ i \in DOMAIN s : P(s[i]) })

----------------------------------------------------------------------------
(* anti_cheat.py: data *)

KnownSeverities == {"low", "medium", "high", "critical"}
\* CheatFlag.severity is a free string: "info" stands for any unknown one
Severities == KnownSeverities \cup {"info"}

CheatFlag(type, sev) == [flag_type |-> type, severity |-> sev]

\* Optional[float] values
None == [kind |-> "None", val |-> 0]
NaN  == [kind |-> "nan",  val |-> 0]
Num(x) == [kind |-> "num", val |-> x]

NoReport == [status |-> "none"]
NoCalc   == [status |-> "none"]
\* no direct call of a single operation was made
NoCall   == [status |-> "none"]

----------------------------------------------------------------------------
(* AntiCheatEngine._calculate_integrity_score *)

\* mutant: the penalties of high and critical exchanged
severity_penalties_swapped(sev) ==
    CASE sev = "low"      -> 5
      [] sev = "medium"   -> 10
      [] sev = "high"     -> 35
      [] sev = "critical" -> 20
      [] OTHER            -> 5

\* severity_penalties.get(flag.severity, 5)
severity_penalties(sev) ==
    CASE sev = "low"      -> 5
      [] sev = "medium"   -> 10
      [] sev = "high"     -> 20
      [] sev = "critical" -> 35
      [] OTHER            -> 5

RECURSIVE SumPenalties(_)
\* the loop "for flag in flags: score -= severity_penalties.get(...)"
SumPenalties(fs) ==
    IF fs = <<>> THEN 0
    ELSE severity_penalties(Head(fs).severity) + SumPenalties(Tail(fs))

\* "if resume_match is not None and resume_match < 50: (50 - resume_match) * 0.3"
\* in hundredths; a NaN compares false
ResumePenalty(rm) ==
    IF rm.kind = "num" /\ rm.val < 500 THEN 3 * (500 - rm.val) ELSE 0

\* mutant: the threshold itself already penalised
PlagiarismPenalty_inclusive(ps) == IF ps >= PLAGIARISM_THRESHOLD THEN 3000 ELSE 0

\* "if plagiarism_score > settings.PLAGIARISM_THRESHOLD: score -= 30"
PlagiarismPenalty(ps) == IF ps > PLAGIARISM_THRESHOLD THEN 3000 ELSE 0

\* mutant: the final max(0, min(100, score)) left out
calculate_integrity_score_noclamp(fs, rm, ts, ps) ==
    10000 - 100 * SumPenalties(fs) - ResumePenalty(rm) - PlagiarismPenalty(ps)

calculate_integrity_score(fs, rm, ts, ps) ==
    LET score == 10000 - 100 * SumPenalties(fs) - ResumePenalty(rm)
                       - PlagiarismPenalty(ps)
    IN  Max(0, Min(10000, score))

----------------------------------------------------------------------------
(* AntiCheatEngine.check_resume_mismatch *)

\* one flag per entry of "mismatches" whose gap_severity is high or critical
MismatchFlags(mismatches) ==
    FlatMap(LAMBDA gap : IF gap \in {"high", "critical"}
                         THEN <<CheatFlag("resume_mismatch", gap)>>
                         ELSE <<>>,
            mismatches)

\* "if match_score < settings.RESUME_MISMATCH_THRESHOLD * 100" (a NaN compares false)
LowMatchFlag(ms) ==
    IF ms.kind = "num" /\ ms.val < RESUME_MISMATCH_THRESHOLD_PCT
    THEN <<CheatFlag("resume_mismatch", "critical")>>
    ELSE <<>>

\* resp is the parsed answer of the generative service:
\*   resp.match_score : None when the key is missing (default 50), else the number
\*   resp.mismatches  : the gap_severity of each entry of "mismatches"
check_resume_mismatch(resp) ==
    LET match_score == IF resp.match_score = None THEN Num(500) ELSE resp.match_score
    IN  [flags       |-> MismatchFlags(resp.mismatches) \o LowMatchFlag(match_score),
         match_score |-> match_score]

----------------------------------------------------------------------------
(* AntiCheatEngine.check_timing_anomalies *)

\* number of i in 2..Len(times) with both neighbours > 0 and a ratio > 10
SpeedJumps(times) ==
    Cardinality({ i \in 2..Len(times) :
        /\ times[i] > 0
        /\ times[i-1] > 0
        /\ Max(times[i], times[i-1]) > 10 * Min(times[i], times[i-1]) })

\* mutant: the 30% and 50% limits themselves already count
check_timing_anomalies_inclusive(times) ==
    LET n        == Len(times)
        fast     == Count(times, LAMBDA t : t < MIN_TIME_PER_QUESTION)
        isFast   == 10 * fast >= 3 * n
        sev      == IF 2 * fast >= n THEN "critical" ELSE "high"
        total    == SeqSum(times)
        squares  == SeqSum([i \in 1..n |-> times[i] * times[i]])
        uniform  == IF total > 0 THEN 100 * (n * squares - total * total) < total * total
                    ELSE TRUE
        isBot    == n > 5 /\ uniform
        score    == (IF isFast THEN 40 ELSE 0) + (IF isBot THEN 30 ELSE 0)
                    + 5 * SpeedJumps(times)
    IN  IF n = 0 THEN [flags |-> <<>>, score |-> 0]
        ELSE [flags |-> (IF isFast THEN <<CheatFlag("timing_anomaly", sev)>> ELSE <<>>)
                        \o (IF isBot THEN <<CheatFlag("bot_pattern", "high")>> ELSE <<>>),
              score |-> Min(score, 100)]

\* times[i] = response_timings[i].get("time_seconds", 0), whole seconds
check_timing_anomalies(times) ==
    LET n        == Len(times)
        fast     == Count(times, LAMBDA t : t < MIN_TIME_PER_QUESTION)
        \* fast_answers > len(times) * 0.3
        isFast   == 10 * fast > 3 * n
        \* "critical" if fast_answers > len(times) * 0.5 else "high"
        sev      == IF 2 * fast > n THEN "critical" ELSE "high"
        total    == SeqSum(times)
        squares  == SeqSum([i \in 1..n |-> times[i] * times[i]])
        \* cv = std_dev / avg_time if avg_time > 0 else 0;  cv < 0.1
        \*   <=>  variance < 0.01 * avg^2  <=>  100 * (n*squares - total^2) < total^2
        uniform  == IF total > 0 THEN 100 * (n * squares - total * total) < total * total
                    ELSE TRUE
        isBot    == n > 5 /\ uniform
        score    == (IF isFast THEN 40 ELSE 0) + (IF isBot THEN 30 ELSE 0)
                    + 5 * SpeedJumps(times)
    IN  IF n = 0 THEN [flags |-> <<>>, score |-> 0]
        ELSE [flags |-> (IF isFast THEN <<CheatFlag("timing_anomaly", sev)>> ELSE <<>>)
                        \o (IF isBot THEN <<CheatFlag("bot_pattern", "high")>> ELSE <<>>),
              score |-> Min(score, 100)]

----------------------------------------------------------------------------
(* AntiCheatEngine.check_random_guessing *)

\* counter.most_common(1)[0][1]
MostCommonCount(answers) ==
    LET cnt(a) == Count(answers, LAMBDA x : x = a)
    IN  CHOOSE c \in { cnt(answers[i]) : i \in DOMAIN answers } :
            \A j \in DOMAIN answers : cnt(answers[j]) <= c

\* results = evaluation.mcq_results: sequence of [selected_answer, is_correct]
check_random_guessing(results) ==
    LET n       == Len(results)
        chosen  == SelectSeq(results, LAMBDA r : r.selected_answer # <<>>)
        answers == [i \in DOMAIN chosen |-> chosen[i].selected_answer]
        correct == Count(results, LAMBDA r : r.is_correct)
    IN  IF n < 5 THEN <<>>
        ELSE IF answers = <<>> THEN <<CheatFlag("random_guess", "critical")>>
        ELSE (IF 10 * MostCommonCount(answers) > 7 * Len(answers) /\ Len(answers) > 5
              THEN <<CheatFlag("random_guess", "high")>> ELSE <<>>)
             \o
             (IF 10 * correct <= 3 * n /\ n >= 8
              THEN <<CheatFlag("random_guess", "medium")>> ELSE <<>>)

----------------------------------------------------------------------------
(* AntiCheatEngine.check_code_plagiarism *)

\* mutant: a similarity equal to the threshold is flagged too
check_code_plagiarism_inclusive(sims) ==
    [flags |-> FlatMap(LAMBDA s :
                    IF s >= PLAGIARISM_THRESHOLD
                    THEN <<CheatFlag("plagiarism",
                                     IF s > 95 THEN "critical" ELSE "high")>>
                    ELSE <<>>,
                  sims),
     max_similarity |->
        IF sims = <<>> THEN 0
        ELSE CHOOSE m \in {sims[i] : i \in DOMAIN sims} :
                \A j \in DOMAIN sims : sims[j] <= m]

\* sims[k] is fuzz.ratio(norm_mine, norm_other), 0..100, of the k-th pair
\* (my_code, other_code) in iteration order; similarity = ratio / 100.0
check_code_plagiarism(sims) ==
    [flags |-> FlatMap(LAMBDA s :
                    IF s > PLAGIARISM_THRESHOLD
                    THEN <<CheatFlag("plagiarism",
                                     IF s > 95 THEN "critical" ELSE "high")>>
                    ELSE <<>>,
                  sims),
     max_similarity |->
        IF sims = <<>> THEN 0
        ELSE CHOOSE m \in {sims[i] : i \in DOMAIN sims} :
                \A j \in DOMAIN sims : sims[j] <= m]

\* A code text is a sequence of atoms: a letter, a blank (" " or "\n"), or
\* "#c", a comment running to the end of its line.
IsBlank(c) == c \in {" ", "\n"}

RECURSIVE CollapseBlanks(_)
\* re.sub(r'\s+', ' ', code): every run of blanks becomes one " "
CollapseBlanks(code) ==
    IF code = <<>> THEN <<>>
    ELSE IF IsBlank(Head(code))
         THEN IF Tail(code) # <<>> /\ IsBlank(Head(Tail(code)))
              THEN CollapseBlanks(Tail(code))
              ELSE <<" ">> \o CollapseBlanks(Tail(code))
         ELSE <<Head(code)>> \o CollapseBlanks(Tail(code))

\* .strip() of a text whose blanks are collapsed
StripBlanks(code) ==
    LET l == IF code # <<>> /\ IsBlank(Head(code)) THEN Tail(code) ELSE code
    IN  IF l # <<>> /\ IsBlank(l[Len(l)]) THEN SubSeq(l, 1, Len(l) - 1) ELSE l

LowerAtom(c) == IF c = "X" THEN "x" ELSE c

\* _normalize_code: comments removed, blanks collapsed and stripped, lower case
normalize_code(code) ==
    LET bare == SelectSeq(code, LAMBDA c : c # "#c")
        text == StripBlanks(CollapseBlanks(bare))
    IN  [i \in DOMAIN text |-> LowerAtom(text[i])]

RECURSIVE LCS(_, _)
\* length of the longest common subsequence
LCS(a, b) ==
    IF a = <<>> \/ b = <<>> THEN 0
    ELSE IF Head(a) = Head(b) THEN 1 + LCS(Tail(a), Tail(b))
    ELSE LET l == LCS(Tail(a), b)
             r == LCS(a, Tail(b))
         IN  IF l >= r THEN l ELSE r

\* mutant: the common part measured against the first text alone
fuzz_ratio_of_first(a, b) ==
    IF Len(a) + Len(b) = 0 THEN 100
    ELSE IF Len(a) = 0 THEN 0
    ELSE (100 * LCS(a, b) + Len(a) - 1) \div Len(a)

\* fuzz.ratio(a, b): the normalised indel similarity 100 * 2 * LCS / (len a + len b),
\* 100 for two empty texts.  A value that is no whole number is rounded up:
\* x > k holds exactly when ceil(x) > k for a whole k, so the two comparisons
\* of the code (with 85 and 95) are those of the exact value.
fuzz_ratio(a, b) ==
    LET total == Len(a) + Len(b)
    IN  IF total = 0 THEN 100
        ELSE (200 * LCS(a, b) + total - 1) \div total

\* the order in which all_candidate_codes.items() yields the candidates
CandidateIds == <<"c1", "c2">>

\* the similarities of the pairs compared, in the order of the three loops:
\* other candidates, then my_code, then other_code
PairSimilarities(candidate_id, all_candidate_codes) ==
    LET my_codes == IF candidate_id \in DOMAIN all_candidate_codes
                    THEN all_candidate_codes[candidate_id] ELSE <<>>
        OfOther(other_id) ==
            IF other_id = candidate_id \/ other_id \notin DOMAIN all_candidate_codes
            THEN <<>>
            ELSE FlatMap(LAMBDA my_code :
                     [j \in DOMAIN all_candidate_codes[other_id] |->
                         fuzz_ratio(normalize_code(my_code),
                                    normalize_code(all_candidate_codes[other_id][j]))],
                     my_codes)
    IN  FlatMap(OfOther, CandidateIds)

\* check_code_plagiarism as a whole ("if not my_codes: return flags, 0.0")
code_plagiarism(candidate_id, all_candidate_codes) ==
    check_code_plagiarism(PairSimilarities(candidate_id, all_candidate_codes))

----------------------------------------------------------------------------
(* AntiCheatEngine.check_copy_paste_patterns *)

\* an answer text is a sequence of tokens:
\*   "<b>"  a markup tag matched by the tag pattern,  "fence" a code-fence delimiter,
\*   "according to" a source-attribution phrase,  "w" any other word
TextTokens == {"<b>", "fence", "according to", "w"}

PasteFlagsOf(text) ==
    IF text = <<>> THEN <<>>
    ELSE (IF (\E i \in DOMAIN text : text[i] = "<b>")
             \/ Count(text, LAMBDA t : t = "fence") > 2
          THEN <<CheatFlag("copy_paste", "medium")>> ELSE <<>>)
         \o
         (IF \E i \in DOMAIN text : text[i] = "according to"
          THEN <<CheatFlag("copy_paste", "low")>> ELSE <<>>)

\* texts[i] = evaluation.subjective_results[i].answer_text
check_copy_paste_patterns(texts) == FlatMap(PasteFlagsOf, texts)

----------------------------------------------------------------------------
(* AntiCheatEngine.full_integrity_check: the tail after the five checks *)

\* any(f.severity in ("high", "critical") for f in flags)
IsFlagged(fs) == \E i \in DOMAIN fs : fs[i].severity \in {"high", "critical"}

\* mutant: the two outcomes of a flagged report exchanged
recommendation_swapped(is_flagged, score) ==
    IF is_flagged THEN (IF score < 3000 THEN "review" ELSE "reject")
    ELSE IF score < 6000 THEN "review"
    ELSE "clear"

\* recommendation = "clear"; if is_flagged: "reject" if score < 30 else "review";
\* elif score < 60: "review"
recommendation(is_flagged, score) ==
    IF is_flagged THEN (IF score < 3000 THEN "reject" ELSE "review")
    ELSE IF score < 6000 THEN "review"
    ELSE "clear"

\* which of the four summary texts _generate_summary returns
generate_summary(fs) ==
    IF fs = <<>> THEN "clean"
    ELSE IF \E i \in DOMAIN fs : fs[i].severity = "critical" THEN "critical"
    ELSE IF \E i \in DOMAIN fs : fs[i].severity = "high" THEN "warning"
    ELSE "minor"

\* round(x, 1) of a non-negative x in hundredths, ties to even
Round1(x) ==
    LET q == x \div 10
        r == x % 10
    IN  IF r < 5 THEN 10 * q
        ELSE IF r > 5 THEN 10 * (q + 1)
        ELSE IF q % 2 = 0 THEN 10 * q ELSE 10 * (q + 1)

----------------------------------------------------------------------------
(* Inputs of the integrity engine *)

\* match_score values the generative service may answer, tenths of a point
\* (the prompt asks for 0-100; nothing in the code enforces it); None: key missing
MatchScoreValues == {None} \cup { Num(x) : x \in {-500, 399, 400, 499, 500} }

\* resume_match arguments of a direct call
ResumeMatchValues ==
    {None, NaN} \cup { Num(x) : x \in {-500, 0, 399, 400, 499, 500, 800, 1500} }

GapSeverities == {"low", "high", "critical"}

TimeValues == {0, 2, 12, 200}

\* response_timings inputs: a run of one duration followed by a run of another
TimingInputs ==
    { Rep(a, k) \o Rep(b, m) : a \in TimeValues, b \in TimeValues,
                               k \in 0..MaxRun, m \in 0..MaxRun }

McqResultValues ==
    [selected_answer : {<<>>, <<"A">>, <<"B">>}, is_correct : BOOLEAN]

\* evaluation.mcq_results inputs
McqResultInputs ==
    { Rep(a, k) \o Rep(b, m) : a \in McqResultValues, b \in McqResultValues,
                               k \in 0..MaxRun, m \in 0..MaxRun }

\* fuzz.ratio results, 0..100
SimValues == {0, 85, 86, 95, 96, 100}

\* plagiarism_score arguments of a direct call
PlagiarismValues == SimValues

\* answer texts of subjective results
TextSamples ==
    { <<>>, <<"w">>, <<"<b>", "w">>, <<"fence", "w", "fence">>,
      <<"fence", "fence", "fence">>, <<"w", "according to">>,
      <<"<b>", "according to">> }

\* evaluation.subjective_results inputs: a run of results with the same answer text
PasteInputs == { Rep(t, k) : t \in TextSamples, k \in 0..MaxSubjResults }

\* response_timings of a direct call of check_timing_anomalies
TimingCallInputs ==
    { Rep(a, k) \o Rep(b, m) : a \in TimeValues, b \in TimeValues,
                               k \in 0..MaxCallRun, m \in 0..MaxCallRun }

\* evaluation.mcq_results of a direct call of check_random_guessing
GuessCallInputs ==
    { Rep(a, k) \o Rep(b, m) : a \in McqResultValues, b \in McqResultValues,
                               k \in 0..MaxCallRun, m \in 0..MaxCallRun }

\* code submissions: twenty-letter programs that share their first 17 letters,
\* one of them also written with a comment, capitals and blanks around it, a
\* nineteen-letter one, and the empty submission
CodeSamples ==
    { Rep("x", 17) \o <<"a", "b", "c">>,
      Rep("x", 17) \o <<"d", "e", "f">>,
      Rep("x", 17) \o <<"a", "b", "d">>,
      <<"#c", "\n">> \o Rep("X", 17) \o <<"a", "b", "c", " ", "\n">>,
      Rep("x", 17) \o <<"a", "b">>,
      <<>> }

\* all_candidate_codes: candidate id -> list of code submissions
CandidateCodeDicts ==
    UNION { [ids -> SeqsUpTo(CodeSamples, MaxCodes)] : ids \in SUBSET {"c1", "c2"} }

----------------------------------------------------------------------------
(* Actions: one call of full_integrity_check *)

\* "if resume_text:" holds and both generative calls answered with an object
ResumeCheck ==
    /\ ic_pc = "idle"
    /\ ev_pc = "idle"
    /\ IoIdle
    /\ \E ms \in MatchScoreValues, mm \in SeqsUpTo(GapSeverities, MaxMismatches) :
          LET r == check_resume_mismatch([match_score |-> ms, mismatches |-> mm])
          IN  /\ flags' = flags \o r.flags
              /\ resume_match_score' = r.match_score
    /\ ic_pc' = "timing"
    /\ UNCHANGED <<timing_score, plagiarism_score, integrity_score, report, calc>>
    /\ UNCHANGED ev_vars
    /\ UNCHANGED call_vars
    /\ UNCHANGED io_vars

\* resume_text is None or empty: the check is skipped
ResumeSkip ==
    /\ ic_pc = "idle"
    /\ ev_pc = "idle"
    /\ IoIdle
    /\ ic_pc' = "timing"
    /\ UNCHANGED <<flags, resume_match_score, timing_score, plagiarism_score,
                   integrity_score, report, calc>>
    /\ UNCHANGED ev_vars
    /\ UNCHANGED call_vars
    /\ UNCHANGED io_vars

\* a generative call raises, or float(...) / .get fails on its answer:
\* the exception leaves full_integrity_check
ResumeFault ==
    /\ ic_pc = "idle"
    /\ ev_pc = "idle"
    /\ IoIdle
    /\ ic_pc' = "raised"
    /\ UNCHANGED <<flags, resume_match_score, timing_score, plagiarism_score,
                   integrity_score, report, calc>>
    /\ UNCHANGED ev_vars
    /\ UNCHANGED call_vars
    /\ UNCHANGED io_vars

\* "if response_timings:" (an empty list skips the check and leaves 0.0)
TimingCheck ==
    /\ ic_pc = "timing"
    /\ \E times \in TimingInputs :
          LET r == check_timing_anomalies(times)
          IN  /\ flags' = flags \o r.flags
              /\ timing_score' = r.score
    /\ ic_pc' = "guess"
    /\ UNCHANGED <<resume_match_score, plagiarism_score, integrity_score, report, calc>>
    /\ UNCHANGED ev_vars
    /\ UNCHANGED call_vars
    /\ UNCHANGED io_vars

GuessCheck ==
    /\ ic_pc = "guess"
    /\ \E mcq \in McqResultInputs : flags' = flags \o check_random_guessing(mcq)
    /\ ic_pc' = "plagiarism"
    /\ UNCHANGED <<resume_match_score, timing_score, plagiarism_score,
                   integrity_score, report, calc>>
    /\ UNCHANGED ev_vars
    /\ UNCHANGED call_vars
    /\ UNCHANGED io_vars

\* "if all_candidate_codes and candidate_id in all_candidate_codes:"
PlagiarismCheck ==
    /\ ic_pc = "plagiarism"
    /\ \E present \in BOOLEAN, sims \in SeqsUpTo(SimValues, MaxPairs) :
          LET r == check_code_plagiarism(sims)
          IN  IF present
              THEN /\ flags' = flags \o r.flags
                   /\ plagiarism_score' = r.max_similarity
              ELSE UNCHANGED <<flags, plagiarism_score>>
    /\ ic_pc' = "paste"
    /\ UNCHANGED <<resume_match_score, timing_score, integrity_score, report, calc>>
    /\ UNCHANGED ev_vars
    /\ UNCHANGED call_vars
    /\ UNCHANGED io_vars

PasteCheck ==
    /\ ic_pc = "paste"
    /\ \E texts \in PasteInputs :
          flags' = flags \o check_copy_paste_patterns(texts)
    /\ ic_pc' = "score"
    /\ UNCHANGED <<resume_match_score, timing_score, plagiarism_score,
                   integrity_score, report, calc>>
    /\ UNCHANGED ev_vars
    /\ UNCHANGED call_vars
    /\ UNCHANGED io_vars

\* lines 156-181: score, is_flagged, recommendation, summary, the report
BuildReport ==
    /\ ic_pc = "score"
    /\ LET score      == calculate_integrity_score(flags, resume_match_score,
                                                   timing_score, plagiarism_score)
           is_flagged == IsFlagged(flags)
       IN  /\ integrity_score' = score
           /\ report' = [status                  |-> "returned",
                         overall_integrity_score |-> Round1(score),
                         flags                   |-> flags,
                         resume_match_score      |-> resume_match_score,
                         plagiarism_score        |-> plagiarism_score,
                         timing_anomaly_score    |-> timing_score,
                         is_flagged              |-> is_flagged,
                         recommendation          |-> recommendation(is_flagged, score),
                         summary                 |-> generate_summary(flags)]
    /\ ic_pc' = "done"
    /\ UNCHANGED <<flags, resume_match_score, timing_score, plagiarism_score, calc>>
    /\ UNCHANGED ev_vars
    /\ UNCHANGED call_vars
    /\ UNCHANGED io_vars

\* a direct call of _calculate_integrity_score with arbitrary arguments
CalculateIntegrityScore ==
    /\ ic_pc = "idle"
    /\ ev_pc = "idle"
    /\ IoIdle
    /\ \E fs \in SeqsUpTo({CheatFlag("any", sev) : sev \in Severities}, MaxFlags),
          rm \in ResumeMatchValues, ps \in PlagiarismValues :
          calc' = [status           |-> "returned",
                   flags            |-> fs,
                   resume_match     |-> rm,
                   plagiarism_score |-> ps,
                   result           |-> calculate_integrity_score(fs, rm, 0, ps)]
    /\ ic_pc' = "calculated"
    /\ UNCHANGED <<flags, resume_match_score, timing_score, plagiarism_score,
                   integrity_score, report>>
    /\ UNCHANGED ev_vars
    /\ UNCHANGED call_vars
    /\ UNCHANGED io_vars

\* a direct call of check_timing_anomalies
CallCheckTimingAnomalies ==
    /\ ic_pc = "idle"
    /\ ev_pc = "idle"
    /\ IoIdle
    /\ \E times \in TimingCallInputs :
          LET r == check_timing_anomalies(times)
          IN  timing_call' = [status |-> "returned", times |-> times,
                              flags |-> r.flags, score |-> r.score]
    /\ ic_pc' = "timing_called"
    /\ UNCHANGED <<flags, resume_match_score, timing_score, plagiarism_score,
                   integrity_score, report, calc>>
    /\ UNCHANGED ev_vars
    /\ UNCHANGED <<subj_call, coding_call, guess_call, plag_call, exec_call, fic_call>>
    /\ UNCHANGED io_vars

\* a direct call of check_random_guessing
CallCheckRandomGuessing ==
    /\ ic_pc = "idle"
    /\ ev_pc = "idle"
    /\ IoIdle
    /\ \E results \in GuessCallInputs :
          guess_call' = [status |-> "returned", mcq_results |-> results,
                         flags |-> check_random_guessing(results)]
    /\ ic_pc' = "guess_called"
    /\ UNCHANGED <<flags, resume_match_score, timing_score, plagiarism_score,
                   integrity_score, report, calc>>
    /\ UNCHANGED ev_vars
    /\ UNCHANGED <<subj_call, coding_call, timing_call, plag_call, exec_call, fic_call>>
    /\ UNCHANGED io_vars

\* a direct call of check_code_plagiarism for candidate "c1"
CallCheckCodePlagiarism ==
    /\ ic_pc = "idle"
    /\ ev_pc = "idle"
    /\ IoIdle
    /\ \E all_candidate_codes \in CandidateCodeDicts :
          LET r == code_plagiarism("c1", all_candidate_codes)
          IN  plag_call' = [status |-> "returned", candidate_id |-> "c1",
                            all_candidate_codes |-> all_candidate_codes,
                            flags |-> r.flags,
                            max_similarity |-> r.max_similarity]
    /\ ic_pc' = "plagiarism_called"
    /\ UNCHANGED <<flags, resume_match_score, timing_score, plagiarism_score,
                   integrity_score, report, calc>>
    /\ UNCHANGED ev_vars
    /\ UNCHANGED <<subj_call, coding_call, timing_call, guess_call, exec_call, fic_call>>
    /\ UNCHANGED io_vars

IntegrityInit ==
    /\ ic_pc = "idle"
    /\ flags = <<>>
    /\ resume_match_score = None
    /\ timing_score = 0
    /\ plagiarism_score = 0
    /\ integrity_score = 0
    /\ report = NoReport
    /\ calc = NoCalc
    /\ timing_call = NoCall
    /\ guess_call = NoCall
    /\ plag_call = NoCall
    /\ fic_call = NoCall

IntegrityNext ==
    \/ ResumeCheck
    \/ ResumeSkip
    \/ ResumeFault
    \/ TimingCheck
    \/ GuessCheck
    \/ PlagiarismCheck
    \/ PasteCheck
    \/ BuildReport
    \/ CalculateIntegrityScore
    \/ CallCheckTimingAnomalies
    \/ CallCheckRandomGuessing
    \/ CallCheckCodePlagiarism

----------------------------------------------------------------------------
(* evaluator.py: strings *)

\* str.upper() on one atom
UpperAtom(c) ==
    CASE c = "a" -> "A"
      [] c = "b" -> "B"
      [] OTHER   -> c

\* s.upper()
Upper(s) == [i \in DOMAIN s |-> UpperAtom(s[i])]

IsSpace(c) == c \in {" ", "\n"}

RECURSIVE LStrip(_)
LStrip(s) == IF s # <<>> /\ IsSpace(Head(s)) THEN LStrip(Tail(s)) ELSE s

RECURSIVE RStrip(_)
RStrip(s) ==
    IF s # <<>> /\ IsSpace(s[Len(s)]) THEN RStrip(SubSeq(s, 1, Len(s) - 1)) ELSE s

\* s.strip()
Strip(s) == RStrip(LStrip(s))

\* round-half-even of n / d  (n >= 0, d > 0)
RoundDiv(n, d) ==
    LET q == n \div d
        r == n % d
    IN  IF 2 * r < d THEN q
        ELSE IF 2 * r > d THEN q + 1
        ELSE IF q % 2 = 0 THEN q ELSE q + 1

----------------------------------------------------------------------------
(* Evaluator.evaluate_mcqs *)

\* raised by a["question_id"] when an answer has no question_id key
\* (such an answer is modelled with question_id = -1)
McqAnswersMalformed(answers) == \E i \in DOMAIN answers : answers[i].question_id = -1

\* answer_map.get(q.id, {}).get("selected_answer", ""): the dict comprehension
\* keeps the last answer given for an id
SelectedAnswer(answers, qid) ==
    LET idx == { i \in DOMAIN answers : answers[i].question_id = qid }
    IN  IF idx = {} THEN <<>>
        ELSE answers[CHOOSE i \in idx : \A j \in idx : j <= i].selected_answer

\* is_correct = selected.upper() == q.correct_answer.upper()
McqIsCorrect(selected, correct_answer) == Upper(selected) = Upper(correct_answer)

McqResultOf(q, answers) ==
    LET selected   == SelectedAnswer(answers, q.id)
        is_correct == McqIsCorrect(selected, q.correct_answer)
    IN  [question_id     |-> q.id,
         selected_answer |-> selected,
         correct_answer  |-> q.correct_answer,
         is_correct      |-> is_correct,
         points_earned   |-> IF is_correct THEN q.points ELSE 0,
         max_points      |-> q.points]

\* mutant: one result per answer given instead of one per question
evaluate_mcqs_per_answer(questions, answers) ==
    LET answered == SelectSeq(questions,
                       LAMBDA q : \E i \in DOMAIN answers : answers[i].question_id = q.id)
    IN  [i \in DOMAIN answered |-> McqResultOf(answered[i], answers)]

\* the loop "for q in questions: results.append(MCQResult(...))"
evaluate_mcqs(questions, answers) ==
    [i \in DOMAIN questions |-> McqResultOf(questions[i], answers)]

----------------------------------------------------------------------------
(* Evaluator._execute_code and the body of the loop of _run_test_cases *)

\* cmd_map: the languages that are executed ("java" has an extension, no command)
cmd_map == {"python", "javascript"}

ERROR_PREFIX == <<"ERROR:", " ">>
TIME_LIMIT_EXCEEDED == ERROR_PREFIX \o <<"Time Limit Exceeded">>
UNSUPPORTED == <<"Language not supported for execution">>

\* What running the interpreter on a submission does.  The submission decides it:
\*   <<>>      the empty file: exit status 0, nothing printed
\*   "print4"  prints "4\n", exit status 0
\*   "loop"    never ends: subprocess.TimeoutExpired
\*   "fail"    exit status 1 with a traceback on stderr
ProgramRun(code) ==
    CASE code = <<>>          -> [kind |-> "exit", returncode |-> 0, stdout |-> <<>>,
                                  stderr |-> <<>>]
      [] code = <<"print4">>  -> [kind |-> "exit", returncode |-> 0,
                                  stdout |-> <<"4", "\n">>, stderr |-> <<>>]
      [] code = <<"loop">>    -> [kind |-> "timeout", returncode |-> 0, stdout |-> <<>>,
                                  stderr |-> <<>>]
      [] code = <<"fail">>    -> [kind |-> "exit", returncode |-> 1, stdout |-> <<>>,
                                  stderr |-> <<"Traceback">>]

\* what the host can do to one execution:
\*   "run"    the interpreter runs the submission
\*   "crash"  subprocess.run raises another exception (no interpreter, bad input)
\*   "raise"  the temporary file cannot be written, or os.unlink fails: the
\*            exception leaves _execute_code
HostEvents == {"run", "crash", "raise"}

\* the value _execute_code returns ([raised |-> TRUE] when an exception leaves it)
execute_code(code, language, host) ==
    IF language \notin cmd_map THEN [raised |-> FALSE, output |-> UNSUPPORTED]
    ELSE IF host = "raise" THEN [raised |-> TRUE, output |-> <<>>]
    ELSE IF host = "crash"
         THEN [raised |-> FALSE, output |-> ERROR_PREFIX \o <<"OSError">>]
    ELSE LET run == ProgramRun(code)
         IN  IF run.kind = "timeout"
             THEN [raised |-> FALSE, output |-> TIME_LIMIT_EXCEEDED]
             ELSE IF run.returncode # 0
                  THEN [raised |-> FALSE, output |-> ERROR_PREFIX \o run.stderr]
                  ELSE [raised |-> FALSE, output |-> Strip(run.stdout)]

\* how the execution ended: "ok" (exit status 0), or one of the error ways
ExecutionKind(code, language, host) ==
    IF language \notin cmd_map THEN "unsupported"
    ELSE IF host = "raise" THEN "raise"
    ELSE IF host = "crash" THEN "crash"
    ELSE IF ProgramRun(code).kind = "timeout" THEN "timeout"
    ELSE IF ProgramRun(code).returncode # 0 THEN "nonzero"
    ELSE "ok"

\* the CodeTestResult appended for test case number i (0-based)
CodeTestResultOf(i, tc, code, language, host) ==
    LET r == execute_code(code, language, host)
    IN  IF r.raised
        THEN [test_case_index |-> i,
              passed          |-> FALSE,
              expected_output |-> tc.expected_output,
              actual_output   |-> <<>>,
              error           |-> "exception"]
        ELSE LET expected == Strip(tc.expected_output)
                 actual   == Strip(r.output)
             IN  [test_case_index |-> i,
                  passed          |-> (actual = expected),
                  expected_output |-> expected,
                  actual_output   |-> actual,
                  error           |-> "None"]

----------------------------------------------------------------------------
(* Evaluator.evaluate_subjective / evaluate_coding: the value built *)

\* float(result.get("total_score", 0)): llm.total_score is None when the key is
\* missing, else the number the generative service gave (hundredths of a point)
SubjectiveResultOf(q, candidate_answer, llm) ==
    [question_id |-> q.id,
     answer_text |-> candidate_answer,
     total_score |-> IF llm.total_score = None THEN 0 ELSE llm.total_score.val,
     max_score   |-> q.max_points]

\* mutant: execution and quality weighted 50% each
CodingResultOf_even(q, code, language, test_results, llm) ==
    LET tests_passed == Count(test_results, LAMBDA t : t.passed)
        total_tests  == Len(test_results)
        quality      == IF llm.quality_score = None THEN 0 ELSE llm.quality_score.val
        exec_num     == tests_passed * q.max_points * 5
        qual_num     == quality * q.max_points * 5
    IN  [question_id     |-> q.id,
         submitted_code  |-> code,
         language        |-> language,
         test_results    |-> test_results,
         tests_passed    |-> tests_passed,
         total_tests     |-> total_tests,
         execution_score |-> IF total_tests > 0
                             THEN RoundDiv(exec_num, 10 * total_tests) ELSE 0,
         quality_score   |-> RoundDiv(qual_num, 1000),
         total_score     |-> IF total_tests > 0
                             THEN RoundDiv(exec_num * 100 + qual_num * total_tests,
                                           1000 * total_tests)
                             ELSE RoundDiv(qual_num, 1000),
         max_score       |-> q.max_points]

\* lines 280-308; quality_score in tenths of the 0-10 scale, None when missing
CodingResultOf(q, code, language, test_results, llm) ==
    LET tests_passed == Count(test_results, LAMBDA t : t.passed)
        total_tests  == Len(test_results)
        quality      == IF llm.quality_score = None THEN 0 ELSE llm.quality_score.val
        \* execution_score * 10 * total_tests  and  quality_score * 1000
        exec_num     == tests_passed * q.max_points * 6
        qual_num     == quality * q.max_points * 4
    IN  [question_id     |-> q.id,
         submitted_code  |-> code,
         language        |-> language,
         test_results    |-> test_results,
         tests_passed    |-> tests_passed,
         total_tests     |-> total_tests,
         execution_score |-> IF total_tests > 0
                             THEN RoundDiv(exec_num, 10 * total_tests) ELSE 0,
         quality_score   |-> RoundDiv(qual_num, 1000),
         total_score     |-> IF total_tests > 0
                             THEN RoundDiv(exec_num * 100 + qual_num * total_tests,
                                           1000 * total_tests)
                             ELSE RoundDiv(qual_num, 1000),
         max_score       |-> q.max_points]

----------------------------------------------------------------------------
(* Evaluator.evaluate_candidate: scores *)

SumOf(results, F(_)) == SeqSum([i \in DOMAIN results |-> F(results[i])])

SkillNames == {"Python", "SQL"}

\* _calculate_skill_scores: zip(questions, results) per section, then
\* round(earned / max * 100, 1) in tenths of a percent, 0 when max is 0;
\* only the skills seen are keys
calculate_skill_scores(mcq, subj, code, mcq_q, subj_q, code_q) ==
    LET Pairs(qs, rs) == 1..Min(Len(qs), Len(rs))
        earned(sk) ==
            SeqSum([i \in Pairs(mcq_q, mcq) |->
                       IF mcq_q[i].skill = sk THEN mcq[i].points_earned ELSE 0])
            + SeqSum([i \in Pairs(subj_q, subj) |->
                       IF subj_q[i].skill = sk THEN subj[i].total_score ELSE 0])
            + SeqSum([i \in Pairs(code_q, code) |->
                       IF code_q[i].skill = sk THEN code[i].total_score ELSE 0])
        maxOf(sk) ==
            SeqSum([i \in Pairs(mcq_q, mcq) |->
                       IF mcq_q[i].skill = sk THEN mcq[i].max_points ELSE 0])
            + SeqSum([i \in Pairs(subj_q, subj) |->
                       IF subj_q[i].skill = sk THEN subj[i].max_score ELSE 0])
            + SeqSum([i \in Pairs(code_q, code) |->
                       IF code_q[i].skill = sk THEN code[i].max_score ELSE 0])
        seen == { sk \in SkillNames :
                    \/ \E i \in Pairs(mcq_q, mcq) : mcq_q[i].skill = sk
                    \/ \E i \in Pairs(subj_q, subj) : subj_q[i].skill = sk
                    \/ \E i \in Pairs(code_q, code) : code_q[i].skill = sk }
    IN  [sk \in seen |-> IF maxOf(sk) > 0
                         THEN RoundDiv(earned(sk) * 1000, maxOf(sk)) ELSE 0]

\* lines 438-485: the CandidateEvaluation built from the three result lists
CandidateEvaluationOf(a, mcq, subj, code) ==
    LET total_score == SumOf(mcq, LAMBDA r : r.points_earned)
                       + SumOf(subj, LAMBDA r : r.total_score)
                       + SumOf(code, LAMBDA r : r.total_score)
        max_total   == SumOf(mcq, LAMBDA r : r.max_points)
                       + SumOf(subj, LAMBDA r : r.max_score)
                       + SumOf(code, LAMBDA r : r.max_score)
    IN  [status             |-> "returned",
         mcq_results        |-> mcq,
         subjective_results |-> subj,
         coding_results     |-> code,
         total_score        |-> total_score,
         max_total_score    |-> max_total,
         \* round(total / max * 100, 2), hundredths of a percent
         percentage         |-> IF max_total > 0
                                THEN RoundDiv(total_score * 10000, max_total) ELSE 0,
         skill_scores       |-> calculate_skill_scores(mcq, subj, code,
                                    a.mcq_questions, a.subjective_questions,
                                    a.coding_questions)]

----------------------------------------------------------------------------
(* LLMClient.generate_json and the two delegated judgments *)

\* a field of a JSON object that is present with the wrong type
JsonStr  == [kind |-> "str",  val |-> 0]      \* a non-numeric string
JsonNull == [kind |-> "null", val |-> 0]      \* null

\* the fields read from the generative service's answer (None: key missing)
NoFields == [total_score |-> None, quality_score |-> None]

\* The raw text of the generative service, by what _parse_json can see of it:
\*   wrap  "bare"    the text is the body alone
\*         "fenced"  prose, then the body inside a code fence
\*         "prose"   prose around the body, no fence
\*   body  "object", "array", "scalar"   a complete JSON value of that kind
\*         "truncated"       an object cut before its closing brace
\*         "truncated_list"  such a cut object that holds a complete array
\*         "text"            no JSON at all
\*   fields  the fields of the object
RawBodies == {"object", "array", "scalar", "truncated", "truncated_list", "text"}
RawWraps  == {"bare", "fenced", "prose"}

ErrorDict == [kind |-> "dict", fields |-> NoFields, error |-> TRUE]

\* what json.loads gives for a complete body
JsonValue(raw) ==
    CASE raw.body = "object" -> [kind |-> "dict", fields |-> raw.fields, error |-> FALSE]
      [] raw.body = "array"  -> [kind |-> "list", fields |-> NoFields, error |-> FALSE]
      [] raw.body = "scalar" -> [kind |-> "scalar", fields |-> NoFields, error |-> FALSE]

\* _parse_json: direct parse; else the inside of a code fence; else the first
\* brace-to-brace or bracket-to-bracket span that parses; else the error dict
parse_json(raw) ==
    LET complete == raw.body \in {"object", "array", "scalar"}
    IN  IF raw.wrap = "bare" /\ complete THEN JsonValue(raw)
        ELSE IF raw.wrap = "fenced" /\ complete THEN JsonValue(raw)
        ELSE IF raw.body \in {"object", "array"} THEN JsonValue(raw)
        ELSE IF raw.body = "truncated_list"
             THEN [kind |-> "list", fields |-> NoFields, error |-> FALSE]
        ELSE ErrorDict

\* generate_json: response.raised when generate raises (timeout, HTTP error,
\* rate limit still hit after the retries); else the parsed raw text
generate_json(response) ==
    IF response.raised THEN [raised |-> TRUE, value |-> ErrorDict]
    ELSE [raised |-> FALSE, value |-> parse_json(response.raw)]

\* result.get(...) on a value that is no dict, or float(...) / division on a
\* field of the wrong type, raises
FieldFaults(value, field) ==
    \/ value.kind # "dict"
    \/ value.fields[field].kind \in {"str", "null"}

NoResult == [question_id |-> 0]

\* evaluate_subjective as a whole
evaluate_subjective(q, candidate_answer, response) ==
    LET r == generate_json(response)
    IN  IF r.raised \/ FieldFaults(r.value, "total_score")
        THEN [status |-> "raised", result |-> NoResult]
        ELSE [status |-> "returned",
              result |-> SubjectiveResultOf(q, candidate_answer,
                            [raised |-> FALSE,
                             total_score |-> r.value.fields.total_score])]

\* _run_test_cases as a whole: hosts[i] is what the host does to execution i
run_test_cases(code, language, test_cases, hosts) ==
    [i \in DOMAIN test_cases |->
        CodeTestResultOf(i - 1, test_cases[i], code, language, hosts[i])]

\* evaluate_coding as a whole
evaluate_coding(q, submitted_code, language, hosts, response) ==
    LET test_results == run_test_cases(submitted_code, language, q.test_cases, hosts)
        r == generate_json(response)
    IN  IF r.raised \/ FieldFaults(r.value, "quality_score")
        THEN [status |-> "raised", result |-> NoResult]
        ELSE [status |-> "returned",
              result |-> CodingResultOf(q, submitted_code, language, test_results,
                            [raised |-> FALSE,
                             quality_score |-> r.value.fields.quality_score])]

----------------------------------------------------------------------------
(* Inputs of the evaluator *)

SkillOf(i) == IF i % 2 = 1 THEN "Python" ELSE "SQL"

\* the i-th question of each list of an assessment (points in hundredths)
McqQuestion(i) ==
    [id |-> i, correct_answer |-> IF i % 2 = 1 THEN <<"B">> ELSE <<"a">>,
     points |-> 100 * i, skill |-> SkillOf(i)]

SubjectiveQuestion(i) == [id |-> i, max_points |-> 1000, skill |-> SkillOf(i)]

CodingQuestion(i) ==
    [id |-> i, max_points |-> 2000, skill |-> SkillOf(i),
     test_cases |-> IF i % 2 = 1
                    THEN <<[expected_output |-> <<"4">>]>>
                    ELSE <<[expected_output |-> <<"4", "\n">>],
                           [expected_output |-> <<>>]>>]

AssessmentOf(m, s, c) ==
    [mcq_questions        |-> [i \in 1..m |-> McqQuestion(i)],
     subjective_questions |-> [i \in 1..s |-> SubjectiveQuestion(i)],
     coding_questions     |-> [i \in 1..c |-> CodingQuestion(i)]]

\* selected_answer values of a direct call of evaluate_mcqs
SelectedValues == { <<>>, <<"B">>, <<"b">>, <<" ", "b", " ">>, <<"A">> }

\* mcq_answers entries: question_id 0 is an id of no question, -1 a missing key
McqAnswerValues ==
    [question_id : 0..MaxMcq, selected_answer : SelectedValues]
    \cup {[question_id |-> -1, selected_answer |-> <<>>]}

\* mcq_answers of a call of evaluate_candidate on an assessment with m MCQs
CandidateMcqAnswers(m) ==
    SeqsUpTo([question_id : 0..m, selected_answer : {<<"b">>}], MaxAnswers)

\* dicts: a function from the ids answered
DictsOver(ids, values) == UNION { [S -> values] : S \in SUBSET ids }

CodeSubmissionValues == { [code |-> <<"print4">>, language |-> "python"] }

\* submissions of a direct call of _run_test_cases
CodeValues == { <<>>, <<"print4">>, <<"loop">>, <<"fail">> }
Languages == {"python", "java"}
TestCaseValues ==
    [expected_output : { <<"4">>, <<" ", "4", "\n">>, <<>>, TIME_LIMIT_EXCEEDED }]

\* answers of the generative service to the subjective prompt
SubjectiveAnswersLLM ==
    { [raised |-> FALSE, total_score |-> None],
      [raised |-> FALSE, total_score |-> Num(300)],
      [raised |-> FALSE, total_score |-> Num(1500)],
      [raised |-> TRUE,  total_score |-> None] }

\* answers of the generative service to the code-quality prompt (tenths)
QualityAnswersLLM ==
    { [raised |-> FALSE, quality_score |-> Num(50)],
      [raised |-> TRUE,  quality_score |-> None] }

\* total_score fields of the answer to the subjective prompt (hundredths; the
\* prompt asks for 0..max_score, nothing in the code enforces it)
TotalScoreFields ==
    {None, JsonStr, JsonNull} \cup { Num(x) : x \in {-200, 0, 700, 1000, 1500} }

\* quality_score fields of the answer to the code-quality prompt (tenths of the
\* 0-10 scale)
QualityScoreFields ==
    {None, JsonStr, JsonNull} \cup { Num(x) : x \in {0, 33, 75, 100} }

\* raw texts: every wrap and body; the fields matter for an object only
RawResponses(fieldSets) ==
    { [wrap |-> w, body |-> b, fields |-> NoFields] :
          w \in RawWraps, b \in RawBodies \ {"object"} }
    \cup { [wrap |-> w, body |-> "object", fields |-> f] :
          w \in RawWraps, f \in fieldSets }

NoRaw == [wrap |-> "bare", body |-> "text", fields |-> NoFields]

\* what one generative call does: it raises, or it returns a raw text
Responses(fieldSets) ==
    { [raised |-> TRUE, raw |-> NoRaw] }
    \cup { [raised |-> FALSE, raw |-> raw] : raw \in RawResponses(fieldSets) }

SubjectiveResponses ==
    Responses({ [NoFields EXCEPT !.total_score = t] : t \in TotalScoreFields })

\* the code-quality answers of a direct call of evaluate_coding come bare
CodingResponses ==
    { r \in Responses({ [NoFields EXCEPT !.quality_score = v] :
                            v \in QualityScoreFields }) :
          r.raw.wrap = "bare" }

\* code questions of a direct call: max_points 20.0 or 3.33, n test cases
\* expecting "4"
CodingCallQuestion(points, n) ==
    [id |-> 1, max_points |-> points, skill |-> SkillOf(1),
     test_cases |-> Rep([expected_output |-> <<"4">>], n)]

CodingCallPoints == {2000, 333}

NoEvaluation == [status |-> "none"]
NoMcqCall == [status |-> "none"]
NoAssessment == AssessmentOf(0, 0, 0)
NoResponses == [mcq_answers |-> <<>>, subjective_answers |-> <<>>,
                coding_answers |-> <<>>]

----------------------------------------------------------------------------
(* Actions: evaluate_candidate *)

CallEvaluateCandidate ==
    /\ ev_pc = "idle"
    /\ ic_pc = "idle"
    /\ IoIdle
    /\ \E m \in 0..MaxQuestions, s \in 0..MaxQuestions, c \in 0..MaxQuestions :
          /\ m + s + c <= MaxQuestions
          /\ assessment' = AssessmentOf(m, s, c)
          /\ \E ma \in CandidateMcqAnswers(m),
                sa \in DictsOver(1..s, { <<"w">> }),
                ca \in DictsOver(1..c, CodeSubmissionValues) :
                responses' = [mcq_answers |-> ma, subjective_answers |-> sa,
                              coding_answers |-> ca]
    /\ ev_pc' = "mcq"
    /\ ev_caller' = "candidate"
    /\ UNCHANGED <<mcq_results, subj_results, code_results, subj_i, code_i, rt_code,
                   rt_language, rt_test_cases, rt_i, rt_results, rt_calls, rt_outcomes,
                   evaluation, mcq_call>>
    /\ UNCHANGED llm_fault
    /\ UNCHANGED ic_vars
    /\ UNCHANGED call_vars
    /\ UNCHANGED io_vars

\* step 1: mcq_results = self.evaluate_mcqs(...)
EvaluateMcqsStep ==
    /\ ev_pc = "mcq"
    /\ IF McqAnswersMalformed(responses.mcq_answers)
       THEN /\ ev_pc' = "raised"
            /\ UNCHANGED <<mcq_results, subj_i>>
       ELSE /\ mcq_results' = evaluate_mcqs(assessment.mcq_questions,
                                            responses.mcq_answers)
            /\ subj_i' = 1
            /\ ev_pc' = "subjective"
    /\ UNCHANGED <<ev_caller, assessment, responses, subj_results, code_results,
                   code_i, rt_code, rt_language, rt_test_cases, rt_i, rt_results,
                   rt_calls, rt_outcomes, evaluation, mcq_call>>
    /\ UNCHANGED llm_fault
    /\ UNCHANGED ic_vars
    /\ UNCHANGED call_vars
    /\ UNCHANGED io_vars

\* step 2, one iteration: ans = ...get(q.id, ""); await evaluate_subjective(q, ans)
EvaluateSubjectiveStep ==
    /\ ev_pc = "subjective"
    /\ subj_i <= Len(assessment.subjective_questions)
    /\ LET q   == assessment.subjective_questions[subj_i]
           ans == IF q.id \in DOMAIN responses.subjective_answers
                  THEN responses.subjective_answers[q.id] ELSE <<>>
       IN  \E llm \in SubjectiveAnswersLLM :
              IF llm.raised
              THEN /\ ev_pc' = "raised"
                   /\ llm_fault' = "subjective"
                   /\ UNCHANGED <<subj_results, subj_i>>
              ELSE /\ subj_results' = Append(subj_results,
                                             SubjectiveResultOf(q, ans, llm))
                   /\ subj_i' = subj_i + 1
                   /\ ev_pc' = "subjective"
                   /\ UNCHANGED llm_fault
    /\ UNCHANGED <<ev_caller, assessment, responses, mcq_results, code_results,
                   code_i, rt_code, rt_language, rt_test_cases, rt_i, rt_results,
                   rt_calls, rt_outcomes, evaluation, mcq_call>>
    /\ UNCHANGED ic_vars
    /\ UNCHANGED call_vars
    /\ UNCHANGED io_vars

\* the subjective loop is exhausted
SubjectiveDone ==
    /\ ev_pc = "subjective"
    /\ subj_i > Len(assessment.subjective_questions)
    /\ ev_pc' = "coding"
    /\ code_i' = 1
    /\ UNCHANGED <<ev_caller, assessment, responses, mcq_results, subj_results,
                   code_results, subj_i, rt_code, rt_language, rt_test_cases, rt_i,
                   rt_results, rt_calls, rt_outcomes, evaluation, mcq_call>>
    /\ UNCHANGED llm_fault
    /\ UNCHANGED ic_vars
    /\ UNCHANGED call_vars
    /\ UNCHANGED io_vars

\* step 3, one iteration up to the call of _run_test_cases:
\* submission = ...get(q.id, {}); code = .get("code", ""); lang = .get("language", "python")
EvaluateCodingStart ==
    /\ ev_pc = "coding"
    /\ code_i <= Len(assessment.coding_questions)
    /\ LET q == assessment.coding_questions[code_i]
           given == q.id \in DOMAIN responses.coding_answers
       IN  /\ rt_code' = IF given THEN responses.coding_answers[q.id].code ELSE <<>>
           /\ rt_language' = IF given THEN responses.coding_answers[q.id].language
                             ELSE "python"
           /\ rt_test_cases' = q.test_cases
           /\ rt_calls' = [i \in DOMAIN q.test_cases |-> 0]
           /\ rt_outcomes' = <<>>
    /\ rt_i' = 1
    /\ rt_results' = <<>>
    /\ ev_pc' = "run_tests"
    /\ UNCHANGED <<ev_caller, assessment, responses, mcq_results, subj_results,
                   code_results, subj_i, code_i, evaluation, mcq_call>>
    /\ UNCHANGED llm_fault
    /\ UNCHANGED ic_vars
    /\ UNCHANGED call_vars
    /\ UNCHANGED io_vars

\* mutant: an exception leaving _execute_code ends the loop without a result
RunTestCase_break ==
    /\ ev_pc = "run_tests"
    /\ rt_i <= Len(rt_test_cases)
    /\ \E host \in HostEvents :
          LET r == CodeTestResultOf(rt_i - 1, rt_test_cases[rt_i], rt_code,
                                    rt_language, host)
          IN  IF r.error = "exception"
              THEN /\ rt_i' = Len(rt_test_cases) + 1
                   /\ UNCHANGED rt_results
              ELSE /\ rt_i' = rt_i + 1
                   /\ rt_results' = Append(rt_results, r)
    /\ rt_outcomes' = rt_outcomes
    /\ rt_calls' = [rt_calls EXCEPT ![rt_i] = @ + 1]
    /\ UNCHANGED <<ev_pc, ev_caller, assessment, responses, mcq_results,
                   subj_results, code_results, subj_i, code_i, rt_code, rt_language,
                   rt_test_cases, evaluation, mcq_call>>
    /\ UNCHANGED llm_fault
    /\ UNCHANGED ic_vars
    /\ UNCHANGED call_vars
    /\ UNCHANGED io_vars

\* one iteration of "for i, tc in enumerate(test_cases)" of _run_test_cases
RunTestCase ==
    /\ ev_pc = "run_tests"
    /\ rt_i <= Len(rt_test_cases)
    /\ \E host \in HostEvents :
          /\ rt_results' = Append(rt_results,
                                  CodeTestResultOf(rt_i - 1, rt_test_cases[rt_i],
                                                   rt_code, rt_language, host))
          /\ rt_outcomes' = Append(rt_outcomes,
                                   ExecutionKind(rt_code, rt_language, host))
    /\ rt_calls' = [rt_calls EXCEPT ![rt_i] = @ + 1]
    /\ rt_i' = rt_i + 1
    /\ UNCHANGED <<ev_pc, ev_caller, assessment, responses, mcq_results,
                   subj_results, code_results, subj_i, code_i, rt_code, rt_language,
                   rt_test_cases, evaluation, mcq_call>>
    /\ UNCHANGED llm_fault
    /\ UNCHANGED ic_vars
    /\ UNCHANGED call_vars
    /\ UNCHANGED io_vars

\* "return results" of _run_test_cases
RunTestCasesReturn ==
    /\ ev_pc = "run_tests"
    /\ rt_i > Len(rt_test_cases)
    /\ ev_pc' = IF ev_caller = "direct" THEN "tests_returned" ELSE "quality"
    /\ UNCHANGED <<ev_caller, assessment, responses, mcq_results, subj_results,
                   code_results, subj_i, code_i, rt_code, rt_language, rt_test_cases,
                   rt_i, rt_results, rt_calls, rt_outcomes, evaluation, mcq_call>>
    /\ UNCHANGED llm_fault
    /\ UNCHANGED ic_vars
    /\ UNCHANGED call_vars
    /\ UNCHANGED io_vars

\* the rest of evaluate_coding: await _evaluate_code_quality, build the CodingResult
EvaluateCodingFinish ==
    /\ ev_pc = "quality"
    /\ \E llm \in QualityAnswersLLM :
          IF llm.raised
          THEN /\ ev_pc' = "raised"
               /\ llm_fault' = "quality"
               /\ UNCHANGED <<code_results, code_i>>
          ELSE /\ code_results' =
                     Append(code_results,
                            CodingResultOf(assessment.coding_questions[code_i],
                                           rt_code, rt_language, rt_results, llm))
               /\ code_i' = code_i + 1
               /\ ev_pc' = "coding"
               /\ UNCHANGED llm_fault
    /\ UNCHANGED <<ev_caller, assessment, responses, mcq_results, subj_results,
                   subj_i, rt_code, rt_language, rt_test_cases, rt_i, rt_results,
                   rt_calls, rt_outcomes, evaluation, mcq_call>>
    /\ UNCHANGED ic_vars
    /\ UNCHANGED call_vars
    /\ UNCHANGED io_vars

\* steps 4-6 and the return; the overall-feedback call may raise
FinishEvaluation ==
    /\ ev_pc = "coding"
    /\ code_i > Len(assessment.coding_questions)
    /\ \E feedback_raised \in BOOLEAN :
          IF feedback_raised
          THEN /\ ev_pc' = "raised"
               /\ llm_fault' = "feedback"
               /\ UNCHANGED evaluation
          ELSE /\ evaluation' = CandidateEvaluationOf(assessment, mcq_results,
                                                      subj_results, code_results)
               /\ ev_pc' = "done"
               /\ UNCHANGED llm_fault
    /\ UNCHANGED <<ev_caller, assessment, responses, mcq_results, subj_results,
                   code_results, subj_i, code_i, rt_code, rt_language, rt_test_cases,
                   rt_i, rt_results, rt_calls, rt_outcomes, mcq_call>>
    /\ UNCHANGED ic_vars
    /\ UNCHANGED call_vars
    /\ UNCHANGED io_vars

----------------------------------------------------------------------------
(* Actions: direct calls of evaluate_mcqs and _run_test_cases *)

CallEvaluateMcqs ==
    /\ ev_pc = "idle"
    /\ ic_pc = "idle"
    /\ IoIdle
    /\ \E m \in 0..MaxMcq, answers \in SeqsUpTo(McqAnswerValues, MaxAnswers) :
          LET questions == AssessmentOf(m, 0, 0).mcq_questions
          IN  mcq_call' =
                 IF McqAnswersMalformed(answers)
                 THEN [status |-> "raised", questions |-> questions,
                       answers |-> answers, results |-> <<>>]
                 ELSE [status |-> "returned", questions |-> questions,
                       answers |-> answers,
                       results |-> evaluate_mcqs(questions, answers)]
    /\ ev_pc' = "mcq_called"
    /\ UNCHANGED <<ev_caller, assessment, responses, mcq_results, subj_results,
                   code_results, subj_i, code_i, rt_code, rt_language, rt_test_cases,
                   rt_i, rt_results, rt_calls, rt_outcomes, evaluation>>
    /\ UNCHANGED llm_fault
    /\ UNCHANGED ic_vars
    /\ UNCHANGED call_vars
    /\ UNCHANGED io_vars

CallRunTestCases ==
    /\ ev_pc = "idle"
    /\ ic_pc = "idle"
    /\ IoIdle
    /\ \E code \in CodeValues, language \in Languages,
          tcs \in SeqsUpTo(TestCaseValues, MaxTests) :
          /\ rt_code' = code
          /\ rt_language' = language
          /\ rt_test_cases' = tcs
          /\ rt_calls' = [i \in DOMAIN tcs |-> 0]
          /\ rt_outcomes' = <<>>
    /\ rt_i' = 1
    /\ rt_results' = <<>>
    /\ ev_caller' = "direct"
    /\ ev_pc' = "run_tests"
    /\ UNCHANGED <<assessment, responses, mcq_results, subj_results, code_results,
                   subj_i, code_i, evaluation, mcq_call>>
    /\ UNCHANGED llm_fault
    /\ UNCHANGED ic_vars
    /\ UNCHANGED call_vars
    /\ UNCHANGED io_vars

\* a direct call of evaluate_subjective
CallEvaluateSubjective ==
    /\ ev_pc = "idle"
    /\ ic_pc = "idle"
    /\ IoIdle
    /\ \E candidate_answer \in { <<>>, <<"w">> }, response \in SubjectiveResponses :
          LET q == SubjectiveQuestion(1)
              r == evaluate_subjective(q, candidate_answer, response)
          IN  subj_call' = [status   |-> r.status,
                            question |-> q,
                            response |-> response,
                            result   |-> r.result]
    /\ ev_pc' = "subjective_called"
    /\ UNCHANGED <<ev_caller, assessment, responses, mcq_results, subj_results,
                   code_results, subj_i, code_i, rt_code, rt_language, rt_test_cases,
                   rt_i, rt_results, rt_calls, rt_outcomes, evaluation, mcq_call,
                   llm_fault>>
    /\ UNCHANGED ic_vars
    /\ UNCHANGED <<coding_call, timing_call, guess_call, plag_call, exec_call, fic_call>>
    /\ UNCHANGED io_vars

\* a direct call of evaluate_coding
CallEvaluateCoding ==
    /\ ev_pc = "idle"
    /\ ic_pc = "idle"
    /\ IoIdle
    /\ \E points \in CodingCallPoints, n \in 0..MaxTests,
          submitted_code \in { <<>>, <<"print4">> }, response \in CodingResponses :
          \E hosts \in [1..n -> HostEvents] :
             LET q == CodingCallQuestion(points, n)
                 r == evaluate_coding(q, submitted_code, "python", hosts, response)
             IN  coding_call' = [status   |-> r.status,
                                 question |-> q,
                                 response |-> response,
                                 result   |-> r.result]
    /\ ev_pc' = "coding_called"
    /\ UNCHANGED <<ev_caller, assessment, responses, mcq_results, subj_results,
                   code_results, subj_i, code_i, rt_code, rt_language, rt_test_cases,
                   rt_i, rt_results, rt_calls, rt_outcomes, evaluation, mcq_call,
                   llm_fault>>
    /\ UNCHANGED ic_vars
    /\ UNCHANGED <<subj_call, timing_call, guess_call, plag_call, exec_call, fic_call>>
    /\ UNCHANGED io_vars

----------------------------------------------------------------------------
(* Evaluator._execute_code: the temporary source file *)

\* what happens to the temporary file before the interpreter is started:
\*   "written"       NamedTemporaryFile created it, f.write and f.flush succeeded
\*   "create_fails"  NamedTemporaryFile raises: no file is created
\*   "write_fails"   the file is created and f.write / f.flush raises (a lone
\*                   surrogate in the submission, a full disk)
FileEvents == {"written", "create_fails", "write_fails"}

\* what the interpreter's start does once the file is written
RunEvents == {"run", "crash"}

\* the HostEvents value the two together amount to
HostEventOf(file_event, run_event) ==
    IF file_event = "written" THEN run_event ELSE "raise"

TMP_FILE == "/tmp/tmpXXXX.py"

\* the temporary files of the call that exist when it returns or raises.
\* "with NamedTemporaryFile(..., delete=False)" stands before the "try:", so
\* only a call that reached subprocess.run passes "finally: os.unlink(filepath)"
temp_files_left(language, file_event) ==
    IF language \notin cmd_map THEN {}
    ELSE IF file_event = "create_fails" THEN {}
    ELSE IF file_event = "write_fails" THEN {TMP_FILE}
    ELSE {}

\* a direct call of _execute_code
CallExecuteCode ==
    /\ ev_pc = "idle"
    /\ ic_pc = "idle"
    /\ IoIdle
    /\ \E code \in CodeValues, language \in Languages,
          file_event \in FileEvents, run_event \in RunEvents :
          LET host == HostEventOf(file_event, run_event)
              r    == execute_code(code, language, host)
          IN  exec_call' = [status     |-> IF r.raised THEN "raised" ELSE "returned",
                            code       |-> code,
                            language   |-> language,
                            file_event |-> file_event,
                            kind       |-> ExecutionKind(code, language, host),
                            output     |-> r.output,
                            temp_files |-> temp_files_left(language, file_event)]
    /\ ev_pc' = "execute_called"
    /\ UNCHANGED <<ev_caller, assessment, responses, mcq_results, subj_results,
                   code_results, subj_i, code_i, rt_code, rt_language, rt_test_cases,
                   rt_i, rt_results, rt_calls, rt_outcomes, evaluation, mcq_call,
                   llm_fault>>
    /\ UNCHANGED ic_vars
    /\ UNCHANGED <<subj_call, coding_call, timing_call, guess_call, plag_call,
                   fic_call>>
    /\ UNCHANGED io_vars

EvaluatorInit ==
    /\ ev_pc = "idle"
    /\ ev_caller = "none"
    /\ assessment = NoAssessment
    /\ responses = NoResponses
    /\ mcq_results = <<>>
    /\ subj_results = <<>>
    /\ code_results = <<>>
    /\ subj_i = 1
    /\ code_i = 1
    /\ rt_code = <<>>
    /\ rt_language = "python"
    /\ rt_test_cases = <<>>
    /\ rt_i = 1
    /\ rt_results = <<>>
    /\ rt_calls = <<>>
    /\ rt_outcomes = <<>>
    /\ evaluation = NoEvaluation
    /\ mcq_call = NoMcqCall
    /\ llm_fault = "none"
    /\ subj_call = NoCall
    /\ coding_call = NoCall
    /\ exec_call = NoCall

EvaluatorNext ==
    \/ CallEvaluateCandidate
    \/ EvaluateMcqsStep
    \/ EvaluateSubjectiveStep
    \/ SubjectiveDone
    \/ EvaluateCodingStart
    \/ RunTestCase
    \/ RunTestCasesReturn
    \/ EvaluateCodingFinish
    \/ FinishEvaluation
    \/ CallEvaluateMcqs
    \/ CallRunTestCases
    \/ CallEvaluateSubjective
    \/ CallEvaluateCoding
    \/ CallExecuteCode

----------------------------------------------------------------------------
(* LLMClient._generate_groq: the retry loop *)

\* "max_retries = 5"
max_retries == 5

\* the header "retry-after" of a 429 response: absent, empty, a number of
\* seconds, or an HTTP date (which float() rejects)
HTTP_DATE == [kind |-> "str", val |-> "Wed, 21 Oct 2015 07:28:00 GMT"]
EMPTY_HEADER == [kind |-> "str", val |-> ""]
RetryAfterValues == {None, EMPTY_HEADER, Num(0), Num(7), HTTP_DATE}

\* what one "await client.post(...)" with raise_for_status / response.json() /
\* result["choices"][0]["message"]["content"] can end in
GroqOutcomes ==
    { [kind |-> "ok",  status |-> 200, retry_after |-> None],
      [kind |-> "bad_body", status |-> 200, retry_after |-> None],
      [kind |-> "http_error", status |-> 500, retry_after |-> None],
      [kind |-> "timeout", status |-> 0, retry_after |-> None],
      [kind |-> "connect_error", status |-> 0, retry_after |-> None] }
    \cup { [kind |-> "http_error", status |-> 429, retry_after |-> ra] :
             ra \in RetryAfterValues }

\* "if retry_after": the header is present and not the empty string
HeaderGiven(ra) == ra.kind = "num" \/ (ra.kind = "str" /\ ra.val # "")

\* "float(retry_after) if retry_after else min(2 ** attempt * 3, 60)", seconds
wait_time(ra, attempt) ==
    IF HeaderGiven(ra) THEN ra.val ELSE Min((2 ^ attempt) * 3, 60)

NoGroqResult == [kind |-> "none", value |-> "none"]
GroqReturned(content) == [kind |-> "returned", value |-> content]
GroqRaised(exception) == [kind |-> "raised", value |-> exception]

\* what the handlers of one loop iteration do with the outcome of the request:
\* "sleep" (then continue), "return" or "raise"
groq_handle_retry_any(outcome, attempt) ==
    CASE outcome.kind = "ok" -> [do |-> "return", result |-> GroqReturned("content")]
      [] outcome.kind = "bad_body" -> [do |-> "raise", result |-> GroqRaised("KeyError")]
      [] outcome.kind = "timeout" -> [do |-> "raise", result |-> GroqRaised("TimeoutError")]
      [] outcome.kind = "connect_error" ->
             [do |-> "raise", result |-> GroqRaised("ConnectError")]
      [] outcome.kind = "http_error" ->
             IF attempt < max_retries - 1
             THEN IF outcome.retry_after = HTTP_DATE
                  THEN [do |-> "raise", result |-> GroqRaised("ValueError")]
                  ELSE [do |-> "sleep", result |-> NoGroqResult]
             ELSE [do |-> "raise", result |-> GroqRaised("HTTPStatusError")]

groq_handle(outcome, attempt) ==
    CASE outcome.kind = "ok" -> [do |-> "return", result |-> GroqReturned("content")]
      [] outcome.kind = "bad_body" -> [do |-> "raise", result |-> GroqRaised("KeyError")]
      [] outcome.kind = "timeout" -> [do |-> "raise", result |-> GroqRaised("TimeoutError")]
      [] outcome.kind = "connect_error" ->
             [do |-> "raise", result |-> GroqRaised("ConnectError")]
      [] outcome.kind = "http_error" ->
             IF outcome.status = 429 /\ attempt < max_retries - 1
             THEN IF outcome.retry_after = HTTP_DATE
                  THEN [do |-> "raise", result |-> GroqRaised("ValueError")]
                  ELSE [do |-> "sleep", result |-> NoGroqResult]
             ELSE [do |-> "raise", result |-> GroqRaised("HTTPStatusError")]

\* a call of _generate_groq begins: "for attempt in range(max_retries)"
CallGenerateGroq ==
    /\ groq_pc = "idle"
    /\ ic_pc = "idle"
    /\ ev_pc = "idle"
    /\ IoIdle
    /\ groq_pc' = "post"
    /\ UNCHANGED <<groq_attempt, groq_posts, groq_waits, groq_result>>
    /\ UNCHANGED db_vars
    /\ UNCHANGED ic_vars
    /\ UNCHANGED ev_vars
    /\ UNCHANGED call_vars

\* one iteration of the loop up to its return, raise or "await asyncio.sleep";
\* when range(max_retries) is used up the statement after the loop raises
GroqPost ==
    /\ groq_pc = "post"
    /\ IF groq_attempt >= max_retries
       THEN /\ groq_pc' = "raised"
            /\ groq_result' = GroqRaised("TimeoutError")
            /\ UNCHANGED <<groq_posts, groq_waits>>
       ELSE \E outcome \in GroqOutcomes :
              LET h == groq_handle(outcome, groq_attempt)
              IN  /\ groq_posts' = Append(groq_posts, outcome)
                  /\ groq_result' = h.result
                  /\ IF h.do = "sleep"
                     THEN /\ groq_waits' = Append(groq_waits,
                                  wait_time(outcome.retry_after, groq_attempt))
                          /\ groq_pc' = "sleeping"
                     ELSE /\ groq_waits' = groq_waits
                          /\ groq_pc' = (IF h.do = "return" THEN "returned"
                                                            ELSE "raised")
    /\ UNCHANGED groq_attempt
    /\ UNCHANGED db_vars
    /\ UNCHANGED ic_vars
    /\ UNCHANGED ev_vars
    /\ UNCHANGED call_vars

\* asyncio.sleep(wait_time) is over: "continue" takes the next attempt
GroqWake ==
    /\ groq_pc = "sleeping"
    /\ groq_attempt' = groq_attempt + 1
    /\ groq_pc' = "post"
    /\ UNCHANGED <<groq_posts, groq_waits, groq_result>>
    /\ UNCHANGED db_vars
    /\ UNCHANGED ic_vars
    /\ UNCHANGED ev_vars
    /\ UNCHANGED call_vars

GroqInit ==
    /\ groq_pc = "idle"
    /\ groq_attempt = 0
    /\ groq_posts = <<>>
    /\ groq_waits = <<>>
    /\ groq_result = NoGroqResult

GroqNext ==
    \/ CallGenerateGroq
    \/ GroqPost
    \/ GroqWake

----------------------------------------------------------------------------
(* AntiCheatEngine.full_integrity_check as a whole *)

\* the argument all_candidate_codes: not passed (None), or a dict
NoCodes == [given |-> FALSE, dict |-> [c \in {} |-> <<>>]]
Codes(dict) == [given |-> TRUE, dict |-> dict]

\* "if all_candidate_codes and candidate_id in all_candidate_codes":
\* an empty dict is false as well
PlagiarismCheckRuns(candidate_id, all_candidate_codes) ==
    /\ all_candidate_codes.given
    /\ DOMAIN all_candidate_codes.dict # {}
    /\ candidate_id \in DOMAIN all_candidate_codes.dict

\* the report of one call.  resume is None when resume_text is None or empty,
\* else the generative service's answer handed to check_resume_mismatch;
\* timings are the time_seconds of response_timings (<<>>: None or empty)
full_integrity_check(candidate_id, ev, resume, timings, all_candidate_codes) ==
    LET rr == IF resume = None THEN [flags |-> <<>>, match_score |-> None]
              ELSE check_resume_mismatch(resume)
        tr == IF timings # <<>> THEN check_timing_anomalies(timings)
              ELSE [flags |-> <<>>, score |-> 0]
        gf == check_random_guessing(ev.mcq_results)
        pr == IF PlagiarismCheckRuns(candidate_id, all_candidate_codes)
              THEN code_plagiarism(candidate_id, all_candidate_codes.dict)
              ELSE [flags |-> <<>>, max_similarity |-> 0]
        pf == check_copy_paste_patterns(
                  [i \in DOMAIN ev.subjective_results |->
                      ev.subjective_results[i].answer_text])
        fs == rr.flags \o tr.flags \o gf \o pr.flags \o pf
        score      == calculate_integrity_score(fs, rr.match_score, tr.score,
                                                pr.max_similarity)
        is_flagged == IsFlagged(fs)
    IN  [status                  |-> "returned",
         overall_integrity_score |-> Round1(score),
         flags                   |-> fs,
         resume_match_score      |-> rr.match_score,
         plagiarism_score        |-> pr.max_similarity,
         timing_anomaly_score    |-> tr.score,
         is_flagged              |-> is_flagged,
         recommendation          |-> recommendation(is_flagged, score),
         summary                 |-> generate_summary(fs)]

----------------------------------------------------------------------------
(* main.py: start_assessment, submit_answers, evaluate_submission *)

\* most rows of candidate_submissions
MaxSubmissions == 2
\* the evaluate_submission requests that can be in flight at once
RequestSlots == {"r1", "r2"}

\* the candidate who calls the endpoints
Candidates == {"c1"}

\* AssessmentRecord rows: id -> status; any other id is not found
AssessmentRecords == [a1 |-> "active", a2 |-> "draft"]
AssessmentIds == {"a1", "a2", "a3"}

\* questions_data of assessment "a1": one multiple-choice question, answer "B"
StoredAssessment == AssessmentOf(1, 0, 0)

\* a column that is NULL
Null == [status |-> "null"]

\* response_timings: a list of dicts, of which the engine reads time_seconds
Timings(seconds) == [time_seconds |-> seconds]

\* the bodies of the SubmitAnswersRequest sent: the right answer given slowly,
\* a wrong answer given within two seconds
SubmitBodies ==
    { [mcq_answers |-> <<[question_id |-> 1, selected_answer |-> <<"B">>]>>,
       subjective_answers |-> <<>>, coding_answers |-> <<>>,
       response_timings |-> Timings(<<12>>)],
      [mcq_answers |-> <<[question_id |-> 1, selected_answer |-> <<"A">>]>>,
       subjective_answers |-> <<>>, coding_answers |-> <<>>,
       response_timings |-> Timings(<<2>>)] }

\* CandidateSubmission(id=..., candidate_id=..., assessment_id=...,
\* status="in_progress"); the id is the position in submissions
NewSubmission(candidate_id, assessment_id) ==
    [candidate_id     |-> candidate_id,
     assessment_id    |-> assessment_id,
     status           |-> "in_progress",
     responses        |-> Null,
     response_timings |-> Null,
     evaluation_data  |-> Null,
     anti_cheat_data  |-> Null]

\* evaluator.evaluate_candidate(..., responses=submission.responses or {}) on
\* the stored assessment (no subjective and no coding question)
evaluate_candidate(stored_responses) ==
    LET given == IF stored_responses = Null THEN NoResponses ELSE stored_responses
    IN  CandidateEvaluationOf(StoredAssessment,
            evaluate_mcqs(StoredAssessment.mcq_questions, given.mcq_answers),
            <<>>, <<>>)

\* three code submissions of CodeSamples
SampleCode == Rep("x", 17) \o <<"a", "b", "c">>
NearCode == Rep("x", 17) \o <<"a", "b", "d">>
FarCode == Rep("x", 17) \o <<"d", "e", "f">>

\* mutant: every candidate's code is handed to the integrity check
EndpointCodes_shared ==
    Codes([c \in {"c1", "c2"} |-> <<SampleCode>>])

\* evaluate_submission passes no all_candidate_codes

EndpointCodes == NoCodes

\* anti_cheat.full_integrity_check(candidate_id, assessment_id, evaluation,
\* resume_text, response_timings) for a candidate without a stored resume
integrity_of(candidate_id, ev, stored_timings) ==
    full_integrity_check(candidate_id, ev, None,
                         IF stored_timings = Null THEN <<>>
                         ELSE stored_timings.time_seconds,
                         EndpointCodes)

NoRequest == [pc |-> "none"]

\* every engine call of the other specifications is idle
EnginesIdle == ic_pc = "idle" /\ ev_pc = "idle" /\ groq_pc = "idle"

\* the rows a query filtered by candidate and assessment finds
Matching(candidate_id, assessment_id) ==
    { i \in DOMAIN submissions :
        /\ submissions[i].candidate_id = candidate_id
        /\ submissions[i].assessment_id = assessment_id }

\* start_assessment.  ".first()" has no ORDER BY: any matching row may be the
\* one found.  The 404 and 400 answers leave the database as it is.
StartAssessment ==
    /\ EnginesIdle
    /\ Len(submissions) < MaxSubmissions
    /\ \E candidate_id \in Candidates, assessment_id \in AssessmentIds :
          /\ assessment_id \in DOMAIN AssessmentRecords
          /\ AssessmentRecords[assessment_id] = "active"
          /\ \/ Matching(candidate_id, assessment_id) = {}
             \/ \E existing \in Matching(candidate_id, assessment_id) :
                   submissions[existing].status # "submitted"
          /\ submissions' = Append(submissions,
                                   NewSubmission(candidate_id, assessment_id))
    /\ UNCHANGED eval_requests
    /\ UNCHANGED groq_vars
    /\ UNCHANGED ic_vars
    /\ UNCHANGED ev_vars
    /\ UNCHANGED call_vars

\* submit_answers: refused only for an unknown id and for status "submitted"
SubmitAnswers ==
    /\ EnginesIdle
    /\ \E submission_id \in DOMAIN submissions, req \in SubmitBodies :
          /\ submissions[submission_id].status # "submitted"
          /\ submissions' =
                [submissions EXCEPT
                    ![submission_id].responses =
                        [mcq_answers        |-> req.mcq_answers,
                         subjective_answers |-> req.subjective_answers,
                         coding_answers     |-> req.coding_answers],
                    ![submission_id].response_timings = req.response_timings,
                    ![submission_id].status = "submitted"]
    /\ UNCHANGED eval_requests
    /\ UNCHANGED groq_vars
    /\ UNCHANGED ic_vars
    /\ UNCHANGED ev_vars
    /\ UNCHANGED call_vars

\* a request slot that is free
FreeSlot == CHOOSE k \in RequestSlots : eval_requests[k] = NoRequest

\* evaluate_submission up to "await evaluator.evaluate_candidate(...)": the row
\* is loaded into the request's own session.  From here to db.commit() the
\* request only reads what it loaded, so its two awaits (evaluate_candidate,
\* full_integrity_check) are one stretch during which other requests run.
EvaluateSubmissionBegin ==
    /\ EnginesIdle
    /\ \E k \in DOMAIN eval_requests : eval_requests[k] = NoRequest
    /\ \E submission_id \in DOMAIN submissions :
          /\ submissions[submission_id].status \in {"submitted", "evaluated"}
          /\ eval_requests' =
                [eval_requests EXCEPT ![FreeSlot] =
                    [pc            |-> "awaiting",
                     submission_id |-> submission_id,
                     loaded        |-> submissions[submission_id]]]
    /\ UNCHANGED submissions
    /\ UNCHANGED groq_vars
    /\ UNCHANGED ic_vars
    /\ UNCHANGED ev_vars
    /\ UNCHANGED call_vars

\* evaluate_candidate or full_integrity_check raises: the request ends and
\* nothing is saved
EvaluateSubmissionRaises ==
    /\ EnginesIdle
    /\ \E k \in DOMAIN eval_requests :
          /\ eval_requests[k] # NoRequest
          /\ eval_requests' = [eval_requests EXCEPT ![k] = NoRequest]
    /\ UNCHANGED submissions
    /\ UNCHANGED groq_vars
    /\ UNCHANGED ic_vars
    /\ UNCHANGED ev_vars
    /\ UNCHANGED call_vars

\* what db.commit() writes for one column: the UPDATE names only the columns
\* whose value differs from the one the session loaded
Written(new, loaded, current) ==
    IF new # loaded THEN new ELSE current

\* evaluate_submission from the return of the two awaited calls to db.commit()
EvaluateSubmissionSave ==
    /\ EnginesIdle
    /\ \E k \in DOMAIN eval_requests :
          /\ eval_requests[k] # NoRequest
          /\ LET req       == eval_requests[k]
                 row       == submissions[req.submission_id]
                 ev        == evaluate_candidate(req.loaded.responses)
                 integrity == integrity_of(req.loaded.candidate_id, ev,
                                           req.loaded.response_timings)
             IN  submissions' =
                    [submissions EXCEPT
                        ![req.submission_id].evaluation_data =
                            Written(ev, req.loaded.evaluation_data,
                                    row.evaluation_data),
                        ![req.submission_id].anti_cheat_data =
                            Written(integrity, req.loaded.anti_cheat_data,
                                    row.anti_cheat_data),
                        ![req.submission_id].status =
                            Written("evaluated", req.loaded.status, row.status)]
          /\ eval_requests' = [eval_requests EXCEPT ![k] = NoRequest]
    /\ UNCHANGED groq_vars
    /\ UNCHANGED ic_vars
    /\ UNCHANGED ev_vars
    /\ UNCHANGED call_vars

\* all_candidate_codes arguments of a direct call of full_integrity_check
CodesInputs ==
    {NoCodes} \cup
    { Codes(d) : d \in DictsOver({"c1", "c2"}, { <<SampleCode>>, <<NearCode>>, <<FarCode>> }) }

\* a direct call of full_integrity_check for candidate "c1" without a resume
CallFullIntegrityCheck ==
    /\ EnginesIdle
    /\ IoIdle
    /\ \E body \in SubmitBodies, timings \in {<<>>, <<2>>, <<12>>},
          all_candidate_codes \in CodesInputs :
          LET ev == evaluate_candidate([mcq_answers |-> body.mcq_answers,
                                        subjective_answers |-> <<>>,
                                        coding_answers |-> <<>>])
          IN  fic_call' = [status              |-> "returned",
                           candidate_id        |-> "c1",
                           all_candidate_codes |-> all_candidate_codes,
                           report |-> full_integrity_check("c1", ev, None, timings,
                                                           all_candidate_codes)]
    /\ ic_pc' = "check_called"
    /\ UNCHANGED <<flags, resume_match_score, timing_score, plagiarism_score,
                   integrity_score, report, calc>>
    /\ UNCHANGED <<subj_call, coding_call, timing_call, guess_call, plag_call,
                   exec_call>>
    /\ UNCHANGED ev_vars
    /\ UNCHANGED io_vars

EndpointInit ==
    /\ submissions = <<>>
    /\ eval_requests = [k \in RequestSlots |-> NoRequest]

EndpointNext ==
    \/ StartAssessment
    \/ SubmitAnswers
    \/ EvaluateSubmissionBegin
    \/ EvaluateSubmissionRaises
    \/ EvaluateSubmissionSave
    \/ CallFullIntegrityCheck

----------------------------------------------------------------------------
(* Specifications *)

Init == IntegrityInit /\ EvaluatorInit /\ GroqInit /\ EndpointInit

\* one call into the integrity engine
IntegritySpec == Init /\ [][IntegrityNext]_vars

\* one call into the evaluator
EvaluatorSpec == Init /\ [][EvaluatorNext]_vars

\* one call of _generate_groq
GroqSpec == Init /\ [][GroqNext]_vars

\* the event loop keeps running the coroutine: every request ends (the client
\* has a 120 s time-out) and every asyncio.sleep of a finite time ends
GroqLiveSpec == GroqSpec /\ WF_vars(GroqPost) /\ WF_vars(GroqWake)
                         /\ WF_vars(CallGenerateGroq)

\* the three submission endpoints, requests interleaved at the awaits of
\* evaluate_submission
EndpointSpec == Init /\ [][EndpointNext]_vars

\* The engines keep no state between calls: the model follows one call at a
\* time (every entry action requires both engines idle).
Next == IntegrityNext \/ EvaluatorNext \/ GroqNext \/ EndpointNext

Spec == Init /\ [][Next]_vars

----------------------------------------------------------------------------
(* Properties of the integrity scorer *)

\* the penalty table as the design states it
StatedPenalty(sev) ==
    CASE sev = "low" -> 5 [] sev = "medium" -> 10 [] sev = "high" -> 20
      [] sev = "critical" -> 35

RECURSIVE StatedPenaltySum(_)
StatedPenaltySum(fs) ==
    IF fs = <<>> THEN 0 ELSE StatedPenalty(Head(fs).severity) + StatedPenaltySum(Tail(fs))

SeverityRank(sev) ==
    CASE sev = "low" -> 1 [] sev = "medium" -> 2 [] sev = "high" -> 3
      [] sev = "critical" -> 4

AllKnown(fs) == \A i \in DOMAIN fs : fs[i].severity \in KnownSeverities

Clamp(x) == IF x < 0 THEN 0 ELSE IF x > 10000 THEN 10000 ELSE x

\* C1: the value returned by _calculate_integrity_score, the local
\* integrity_score and the report's overall_integrity_score all lie in
\* [0, 100] (0..10000 hundredths), for any flags, resume match and plagiarism score.
C1_ScoreInRange ==
    /\ calc.status = "returned" => calc.result \in 0..10000
    /\ report.status = "returned" =>
          /\ integrity_score \in 0..10000
          /\ report.overall_integrity_score \in 0..10000

\* C1 witness: a direct call whose unclamped value is below zero (three flags,
\* one of unknown severity, a negative resume match) returned 0
C1_Witness ==
    /\ calc.status = "returned"
    /\ calc.result = 0
    /\ calc.resume_match = Num(-500)
    /\ \E i \in DOMAIN calc.flags : calc.flags[i].severity = "info"
    /\ 100 * SumPenalties(calc.flags) + ResumePenalty(calc.resume_match) > 10000

\* C2: with resume match and plagiarism score fixed, appending one more flag, or
\* replacing a flag's severity by a higher one (low < medium < high < critical),
\* never gives a larger integrity score than the one returned.
C2_Monotone ==
    calc.status = "returned" =>
        /\ \A sev \in Severities :
              calculate_integrity_score(Append(calc.flags, CheatFlag("any", sev)),
                                        calc.resume_match, 0, calc.plagiarism_score)
                 <= calc.result
        /\ \A i \in DOMAIN calc.flags, sev \in KnownSeverities :
              ( /\ calc.flags[i].severity \in KnownSeverities
                /\ SeverityRank(sev) > SeverityRank(calc.flags[i].severity) )
              => calculate_integrity_score(
                     [calc.flags EXCEPT ![i] = CheatFlag("any", sev)],
                     calc.resume_match, 0, calc.plagiarism_score)
                 <= calc.result

\* C2 witness: a returned score above 0 for a list holding a high flag, where
\* raising it to critical and appending a flag both strictly lower the score
C2_Witness ==
    /\ calc.status = "returned"
    /\ calc.result > 3500
    /\ \E i \in DOMAIN calc.flags :
          /\ calc.flags[i].severity = "high"
          /\ calculate_integrity_score(
                 [calc.flags EXCEPT ![i] = CheatFlag("any", "critical")],
                 calc.resume_match, 0, calc.plagiarism_score) < calc.result
    /\ calculate_integrity_score(Append(calc.flags, CheatFlag("any", "low")),
                                 calc.resume_match, 0, calc.plagiarism_score)
          < calc.result

\* C3: in every report, is_flagged holds exactly when some flag is high or
\* critical, and the recommendation is: flagged and score < 30 -> reject; flagged
\* and score >= 30 -> review; not flagged and score < 60 -> review; else clear.
C3_Recommendation ==
    report.status = "returned" =>
        /\ report.is_flagged =
              (\E i \in DOMAIN report.flags :
                   report.flags[i].severity = "high"
                   \/ report.flags[i].severity = "critical")
        /\ report.is_flagged /\ integrity_score < 3000
              => report.recommendation = "reject"
        /\ report.is_flagged /\ integrity_score >= 3000
              => report.recommendation = "review"
        /\ ~report.is_flagged /\ integrity_score < 6000
              => report.recommendation = "review"
        /\ ~report.is_flagged /\ integrity_score >= 6000
              => report.recommendation = "clear"

\* C3 witness: an unflagged report (only low/medium flags) whose score is below
\* 60 and whose recommendation is review
C3_Witness ==
    /\ report.status = "returned"
    /\ ~report.is_flagged
    /\ report.flags # <<>>
    /\ integrity_score < 6000
    /\ report.recommendation = "review"

\* C4: when the resume match is absent or >= 50, the returned score is exactly
\* clamp[0,100](100 - sum of the stated penalties - P), P = 30 when the
\* plagiarism score is strictly above the threshold 0.85 and 0 otherwise.
C4_ExactScore ==
    /\ ( /\ calc.status = "returned"
         /\ AllKnown(calc.flags)
         /\ calc.resume_match.kind = "num" => calc.resume_match.val >= 500 )
       => calc.result =
             Clamp(10000 - 100 * StatedPenaltySum(calc.flags)
                   - (IF calc.plagiarism_score > 85 THEN 3000 ELSE 0))
    /\ ( /\ report.status = "returned"
         /\ resume_match_score.kind = "num" => resume_match_score.val >= 500 )
       => integrity_score =
             Clamp(10000 - 100 * StatedPenaltySum(report.flags)
                   - (IF report.plagiarism_score > 85 THEN 3000 ELSE 0))

\* C4 witness: a direct call without resume match, with a critical flag and a
\* plagiarism score exactly at the threshold (no plagiarism penalty): 65 returned
C4_Witness ==
    /\ calc.status = "returned"
    /\ calc.resume_match = None
    /\ calc.plagiarism_score = 85
    /\ calc.flags = <<CheatFlag("any", "critical")>>
    /\ calc.result = 6500

\* C5: the resume-mismatch penalty is 0 when the resume match is absent or >= 50
\* and never exceeds 15 points (1500 hundredths) for a match score that
\* check_resume_mismatch returns.
C5_ResumePenaltyBounded ==
    ic_pc \in {"timing", "guess", "plagiarism", "paste", "score", "done"} =>
        /\ ( resume_match_score.kind = "num" => resume_match_score.val >= 500 )
              => ResumePenalty(resume_match_score) = 0
        /\ ResumePenalty(resume_match_score) <= 1500

----------------------------------------------------------------------------
(* Properties of the evaluator *)

RunTestCasesReturned == ev_pc \in {"tests_returned", "quality"}

\* C6: _run_test_cases returns exactly one CodeTestResult per test case, in the
\* order of the test cases, with test_case_index equal to the position; every
\* test case was executed exactly once, whatever happened to the others; while
\* the loop runs, the results are those of the test cases before the position.
C6_OneResultPerTestCase ==
    /\ ev_pc = "run_tests" =>
          /\ Len(rt_results) = rt_i - 1
          /\ \A i \in DOMAIN rt_test_cases :
                rt_calls[i] = (IF i < rt_i THEN 1 ELSE 0)
    /\ RunTestCasesReturned =>
          /\ Len(rt_results) = Len(rt_test_cases)
          /\ \A i \in DOMAIN rt_results :
                /\ rt_results[i].test_case_index = i - 1
                /\ Strip(rt_results[i].expected_output)
                      = Strip(rt_test_cases[i].expected_output)
                /\ rt_calls[i] = 1

\* C6 witness: a returned call with two test cases whose first execution raised
\* and whose second one ran and passed
C6_Witness ==
    /\ ev_pc = "tests_returned"
    /\ Len(rt_test_cases) = 2
    /\ rt_outcomes = <<"raise", "ok">>
    /\ rt_results[1].error = "exception"
    /\ rt_results[2].passed

\* C7: a test case whose execution timed out, exited with a non-zero status,
\* crashed, raised or named an unsupported language has passed = false, whatever
\* its expected output is.
C7_ExecutionErrorsFail ==
    \A i \in DOMAIN rt_results :
        ( i \in DOMAIN rt_outcomes /\ rt_outcomes[i] # "ok" ) => ~rt_results[i].passed

\* C8: evaluate_mcqs marks an answer correct exactly when it equals the stored
\* correct answer after trimming and case folding, and then gives the question's
\* full points, otherwise 0.
C8_McqTrimmedCaseInsensitive ==
    mcq_call.status = "returned" =>
        \A i \in DOMAIN mcq_call.results :
            LET r     == mcq_call.results[i]
                equal == Upper(Strip(r.selected_answer)) = Upper(Strip(r.correct_answer))
            IN  /\ r.is_correct = equal
                /\ r.points_earned = (IF equal THEN r.max_points ELSE 0)

IdsInOrder(results, questions) ==
    /\ Len(results) = Len(questions)
    /\ \A i \in DOMAIN results : results[i].question_id = questions[i].id

\* C9: a CandidateEvaluation returned by evaluate_candidate (and the list
\* returned by evaluate_mcqs) holds exactly one result per question, in the order
\* of the question list, the i-th result carrying the i-th question's id.
C9_OneResultPerQuestion ==
    /\ evaluation.status = "returned" =>
          /\ IdsInOrder(evaluation.mcq_results, assessment.mcq_questions)
          /\ IdsInOrder(evaluation.subjective_results, assessment.subjective_questions)
          /\ IdsInOrder(evaluation.coding_results, assessment.coding_questions)
    /\ mcq_call.status = "returned" =>
          IdsInOrder(mcq_call.results, mcq_call.questions)

\* C9 witness: an evaluation returned for two MCQs and a free-text question
\* where the answers hold an unknown id, the second MCQ has no answer and the
\* free-text question has none
C9_Witness ==
    /\ evaluation.status = "returned"
    /\ Len(assessment.mcq_questions) = 2
    /\ Len(assessment.subjective_questions) = 1
    /\ \E i \in DOMAIN responses.mcq_answers : responses.mcq_answers[i].question_id = 0
    /\ \A i \in DOMAIN responses.mcq_answers : responses.mcq_answers[i].question_id # 2
    /\ DOMAIN responses.subjective_answers = {}

\* C10: in a returned evaluation every question without an answer has a zero
\* score: points_earned 0 (exact-choice), total_score 0 (free-text, code).
C10_UnansweredScoresZero ==
    evaluation.status = "returned" =>
        /\ \A i \in DOMAIN evaluation.mcq_results :
              (\A k \in DOMAIN responses.mcq_answers :
                   responses.mcq_answers[k].question_id
                      # assessment.mcq_questions[i].id)
              => evaluation.mcq_results[i].points_earned = 0
        /\ \A i \in DOMAIN evaluation.subjective_results :
              assessment.subjective_questions[i].id
                  \notin DOMAIN responses.subjective_answers
              => evaluation.subjective_results[i].total_score = 0
        /\ \A i \in DOMAIN evaluation.coding_results :
              assessment.coding_questions[i].id \notin DOMAIN responses.coding_answers
              => evaluation.coding_results[i].total_score = 0

Abs(x) == IF x < 0 THEN -x ELSE x

\* C11: for every total_score the generative service returns (negative, above
\* the maximum, or missing), the SubjectiveResult of evaluate_subjective has
\* 0 <= total_score <= max_score, max_score being the question's max_points.
C11_SubjectiveScoreClamped ==
    subj_call.status = "returned" =>
        /\ subj_call.result.max_score = subj_call.question.max_points
        /\ subj_call.result.total_score >= 0
        /\ subj_call.result.total_score <= subj_call.result.max_score

\* C12: a generative call that fails for one question (free-text judgment or
\* code-quality judgment) does not abort evaluate_candidate.
C12_LlmFailureDoesNotAbort ==
    llm_fault \in {"subjective", "quality"} => ev_pc # "raised"

\* a raw text that cannot be read as the expected object
Unreadable(response) ==
    \/ parse_json(response.raw).kind # "dict"
    \/ parse_json(response.raw).error

\* C13: whatever raw text the generative service returns, evaluate_subjective
\* and evaluate_coding return a result, and a text that cannot be read as the
\* expected object gives a zero delegated score.
C13_MalformedResponsesTolerated ==
    /\ ( subj_call.status # "none" /\ ~subj_call.response.raised ) =>
          /\ subj_call.status = "returned"
          /\ Unreadable(subj_call.response) => subj_call.result.total_score = 0
    /\ ( coding_call.status # "none" /\ ~coding_call.response.raised ) =>
          /\ coding_call.status = "returned"
          /\ Unreadable(coding_call.response) => coding_call.result.quality_score = 0

\* C14: a CodingResult returned by evaluate_coding has tests_passed / total_tests
\* counted from its test results, execution_score = 0.6 * max_points *
\* tests_passed / total_tests (0 without test cases) and total_score =
\* execution_score + 0.4 * max_points * quality_score / 10, each to the nearest
\* hundredth of a point (the code rounds both to two decimals).
C14_CodingScoreFormula ==
    coding_call.status = "returned" =>
        LET r       == coding_call.result
            max     == coding_call.question.max_points
            field   == coding_call.response.raw.fields.quality_score
            quality == IF parse_json(coding_call.response.raw).error
                          \/ field = None THEN 0 ELSE field.val
            passed  == Cardinality({ i \in DOMAIN r.test_results :
                                        r.test_results[i].passed })
            total   == Len(coding_call.question.test_cases)
        IN  /\ r.tests_passed = passed
            /\ r.total_tests = total
            /\ r.max_score = max
            /\ total = 0 =>
                  /\ r.execution_score = 0
                  /\ 2 * Abs(1000 * r.total_score - 4 * max * quality) <= 1000
            /\ total > 0 =>
                  /\ 2 * Abs(10 * total * r.execution_score - 6 * max * passed)
                        <= 10 * total
                  /\ 2 * Abs(1000 * total * r.total_score
                             - (600 * max * passed + 4 * max * quality * total))
                        <= 1000 * total

\* C14 witness: a 3.33-point question with two test cases, one passed, and a
\* quality judgment of 7.5: execution 0.999 -> 1.0, total 1.998 -> 2.0
C14_Witness ==
    /\ coding_call.status = "returned"
    /\ coding_call.question.max_points = 333
    /\ coding_call.result.total_tests = 2
    /\ coding_call.result.tests_passed = 1
    /\ coding_call.response.raw.fields.quality_score = Num(75)
    /\ coding_call.result.execution_score = 100
    /\ coding_call.result.total_score = 200

\* C15: every value of skill_scores of a returned CandidateEvaluation is a
\* percentage in [0, 100] (0..1000 tenths of a percent).
C15_SkillScoresInRange ==
    evaluation.status = "returned" =>
        \A sk \in DOMAIN evaluation.skill_scores :
            /\ evaluation.skill_scores[sk] >= 0
            /\ evaluation.skill_scores[sk] <= 1000

----------------------------------------------------------------------------
(* Properties of the detectors *)

\* the flags of a given type that the direct call of check_timing_anomalies gave
TimingCallFlags(type) == SelectSeq(timing_call.flags, LAMBDA f : f.flag_type = type)

\* the number of timing entries below the minimum of 5 seconds
FastEntries == Cardinality({ i \in DOMAIN timing_call.times : timing_call.times[i] < 5 })

\* C16: check_timing_anomalies emits a timing_anomaly flag exactly when the
\* entries below 5 seconds are strictly more than 30% of all entries; its
\* severity is critical when they are strictly more than 50% and high
\* otherwise; there is at most one such flag.
C16_TimingAnomalyFlag ==
    timing_call.status = "returned" =>
        LET n         == Len(timing_call.times)
            anomalies == TimingCallFlags("timing_anomaly")
        IN  /\ Len(anomalies) <= 1
            /\ (Len(anomalies) = 1) <=> (10 * FastEntries > 3 * n)
            /\ \A i \in DOMAIN anomalies :
                  anomalies[i].severity =
                      (IF 2 * FastEntries > n THEN "critical" ELSE "high")

\* C16 witness: ten entries, exactly half of them below 5 seconds: one
\* timing_anomaly flag of severity high
C16_Witness ==
    /\ timing_call.status = "returned"
    /\ Len(timing_call.times) = 10
    /\ FastEntries = 5
    /\ TimingCallFlags("timing_anomaly") = <<CheatFlag("timing_anomaly", "high")>>

\* C17: with at least 5 timing samples whose coefficient of variation
\* (population standard deviation / mean, mean > 0) is below 0.1,
\* check_timing_anomalies emits a bot_pattern flag of severity high.
C17_BotPatternFlag ==
    timing_call.status = "returned" =>
        LET n       == Len(timing_call.times)
            total   == SeqSum(timing_call.times)
            squares == SeqSum([i \in 1..n |-> timing_call.times[i] * timing_call.times[i]])
        IN  ( /\ n >= 5
              /\ total > 0
              /\ 100 * (n * squares - total * total) < total * total )
            => TimingCallFlags("bot_pattern") = <<CheatFlag("bot_pattern", "high")>>

\* C18: with at least 8 exact-choice results of which at most 30% are correct,
\* check_random_guessing emits a random_guess flag of severity medium, however
\* many of the questions were answered.
C18_ChanceAccuracyFlag ==
    guess_call.status = "returned" =>
        LET results == guess_call.mcq_results
            n       == Len(results)
            correct == Cardinality({ i \in DOMAIN results : results[i].is_correct })
        IN  ( n >= 8 /\ 10 * correct <= 3 * n )
            => \E i \in DOMAIN guess_call.flags :
                  guess_call.flags[i] = CheatFlag("random_guess", "medium")

\* C19: when at least 5 answers were given and one option accounts for strictly
\* more than 70% of them, check_random_guessing emits a random_guess flag of
\* severity high.
C19_DominantOptionFlag ==
    guess_call.status = "returned" =>
        LET results == guess_call.mcq_results
            given   == { i \in DOMAIN results : results[i].selected_answer # <<>> }
            Same(a) == { i \in given : results[i].selected_answer = a }
        IN  ( /\ Cardinality(given) >= 5
              /\ \E k \in given :
                    10 * Cardinality(Same(results[k].selected_answer))
                       > 7 * Cardinality(given) )
            => \E i \in DOMAIN guess_call.flags :
                  guess_call.flags[i] = CheatFlag("random_guess", "high")

\* C20: check_code_plagiarism compares every submission of the checked
\* candidate with every submission of every other candidate and with no
\* submission of their own; it emits one plagiarism flag per pair whose
\* similarity is strictly above 0.85, critical when above 0.95 and high
\* otherwise; a byte-identical pair has similarity 1.0 and a critical flag.
C20_PlagiarismFlags ==
    plag_call.status = "returned" =>
        LET codes  == plag_call.all_candidate_codes
            me     == plag_call.candidate_id
            mine   == IF me \in DOMAIN codes THEN codes[me] ELSE <<>>
            Pairs  == UNION { { <<o, i, j>> : i \in DOMAIN mine, j \in DOMAIN codes[o] } :
                              o \in DOMAIN codes \ {me} }
            Sim(p) == fuzz_ratio(normalize_code(mine[p[2]]),
                                 normalize_code(codes[p[1]][p[3]]))
            fs     == plag_call.flags
        IN  /\ \A i \in DOMAIN fs :
                  /\ fs[i].flag_type = "plagiarism"
                  /\ fs[i].severity \in {"high", "critical"}
            /\ Len(fs) = Cardinality({ p \in Pairs : Sim(p) > 85 })
            /\ Cardinality({ i \in DOMAIN fs : fs[i].severity = "critical" })
                  = Cardinality({ p \in Pairs : Sim(p) > 95 })
            /\ \A p \in Pairs :
                  mine[p[2]] = codes[p[1]][p[3]] =>
                      /\ Sim(p) = 100
                      /\ plag_call.max_similarity = 100
                      /\ \E i \in DOMAIN fs : fs[i].severity = "critical"

\* C20 witness: the candidate submitted the same program twice; the other
\* candidate submitted that program and one whose similarity with it is
\* exactly 0.85: two critical flags, none for the pairs at the threshold or for
\* the candidate's own two copies
C20_Witness ==
    /\ plag_call.status = "returned"
    /\ DOMAIN plag_call.all_candidate_codes = {"c1", "c2"}
    /\ plag_call.all_candidate_codes["c1"]
          = Rep(Rep("x", 17) \o <<"a", "b", "c">>, 2)
    /\ plag_call.all_candidate_codes["c2"]
          = << Rep("x", 17) \o <<"a", "b", "c">>, Rep("x", 17) \o <<"d", "e", "f">> >>
    /\ plag_call.flags = Rep(CheatFlag("plagiarism", "critical"), 2)
    /\ plag_call.max_similarity = 100


----------------------------------------------------------------------------
(* Properties of _execute_code, _generate_groq and the submission endpoints *)

\* C21: on every path out of _execute_code (normal exit, non-zero exit, time-out,
\* failure to start the interpreter, failure while writing the source file,
\* unsupported language) no temporary source file created by the call exists
\* any more when the call returns or raises.
C21_NoTempFileLeft ==
    exec_call.status \in {"returned", "raised"} => exec_call.temp_files = {}

GroqDone == groq_pc \in {"returned", "raised"}

\* what the claim says of the attempts made so far, the waits between them and
\* the way the call ended
GroqAsStated ==
    LET n    == Len(groq_posts)
        last == groq_posts[n]
    IN  /\ n <= 5
        /\ \A i \in 1..(n - 1) :
              groq_posts[i].kind = "http_error" /\ groq_posts[i].status = 429
        /\ Len(groq_waits) <= n
        /\ \A i \in DOMAIN groq_waits :
              /\ groq_posts[i].status = 429
              /\ groq_waits[i] = (IF groq_posts[i].retry_after.kind = "num"
                                  THEN groq_posts[i].retry_after.val
                                  ELSE Min(3 * 2 ^ (i - 1), 60))
        /\ groq_pc = "returned" =>
              n >= 1 /\ last.kind = "ok" /\ groq_result = GroqReturned("content")
        /\ groq_pc = "raised" =>
              n >= 1 /\ last.kind # "ok" /\ groq_result.kind = "raised"
        /\ (n >= 1 /\ last.kind = "ok") => groq_pc = "returned"
        /\ (n >= 1 /\ last.kind # "ok" /\ last.status # 429) => groq_pc = "raised"
        /\ (n = 5 /\ last.status = 429) => groq_pc = "raised"

C23_AnswersImmutable ==
    [][ \A i \in DOMAIN submissions :
           submissions[i].status \in {"submitted", "evaluated"} =>
               /\ submissions'[i].responses = submissions[i].responses
               /\ submissions'[i].response_timings = submissions[i].response_timings
      ]_vars

\* C24: the store holds at most one submission record, and so at most one stored
\* evaluation and integrity report, per (candidate, assessment) pair.
C24_OneSubmissionPerPair ==
    \A i \in DOMAIN submissions, j \in DOMAIN submissions :
        ( /\ submissions[i].candidate_id = submissions[j].candidate_id
          /\ submissions[i].assessment_id = submissions[j].assessment_id ) => i = j

\* C29: under every interleaving of submit_answers and evaluate_submission
\* requests on one submission, whenever the stored status is "evaluated" the
\* stored evaluation_data and anti_cheat_data were computed from the responses
\* and response_timings that are stored now.
C29_EvaluatedDataCurrent ==
    \A i \in DOMAIN submissions :
        submissions[i].status = "evaluated" =>
            LET row == submissions[i]
                ev  == evaluate_candidate(row.responses)
            IN  /\ row.evaluation_data = ev
                /\ row.anti_cheat_data =
                      integrity_of(row.candidate_id, ev, row.response_timings)

PlagiarismFree(rep) ==
    /\ rep.plagiarism_score = 0
    /\ \A i \in DOMAIN rep.flags : rep.flags[i].flag_type # "plagiarism"

\* C30: full_integrity_check runs the plagiarism check only when
\* all_candidate_codes is given and contains the candidate's id; otherwise the
\* report has plagiarism_score 0 and no plagiarism flag.  evaluate_submission
\* never passes all_candidate_codes, so every stored integrity report has
\* plagiarism_score 0 and no plagiarism flag.
C30_NoPlagiarismWithoutCodes ==
    /\ fic_call.status = "returned" =>
          ( ~( /\ fic_call.all_candidate_codes.given
               /\ fic_call.candidate_id \in DOMAIN fic_call.all_candidate_codes.dict )
            => PlagiarismFree(fic_call.report) )
    /\ \A i \in DOMAIN submissions :
          submissions[i].anti_cheat_data # Null =>
              PlagiarismFree(submissions[i].anti_cheat_data)

\* a stored integrity report with a flag (a timing anomaly) in it
C30_Witness ==
    \E i \in DOMAIN submissions :
        /\ submissions[i].status = "evaluated"
        /\ submissions[i].anti_cheat_data # Null
        /\ submissions[i].anti_cheat_data.flags # <<>>

\* C25: for an empty code submission evaluate_coding returns a result whose
\* execution_score is 0, no test case counting as passed whatever its expected
\* output is, and it does so without raising.
C25_EmptyCodeScoresZero ==
    /\ \A i \in DOMAIN code_results :
          code_results[i].submitted_code = <<>> =>
              /\ code_results[i].tests_passed = 0
              /\ code_results[i].execution_score = 0
    /\ ( coding_call.status = "returned" /\ coding_call.result.submitted_code = <<>> )
          => /\ coding_call.result.tests_passed = 0
             /\ coding_call.result.execution_score = 0

SeverityCount(fs, sev) == Cardinality({ i \in DOMAIN fs : fs[i].severity = sev })

\* C26: code similarity is symmetric and reflexive: candidate X's plagiarism
\* check flags a submission of Y exactly when Y's check over the same
\* all_candidate_codes flags X, with the same severity and the same highest
\* similarity, and a non-degenerate submission compared with itself has
\* similarity 1.0.
C26_SimilaritySymmetric ==
    plag_call.status = "returned" =>
        LET codes == plag_call.all_candidate_codes
            X     == plag_call.candidate_id
            Y     == IF X = "c1" THEN "c2" ELSE "c1"
            back  == code_plagiarism(Y, codes)
        IN  /\ SeverityCount(back.flags, "high")
                  = SeverityCount(plag_call.flags, "high")
            /\ SeverityCount(back.flags, "critical")
                  = SeverityCount(plag_call.flags, "critical")
            /\ Len(back.flags) = Len(plag_call.flags)
            /\ back.max_similarity = plag_call.max_similarity
            /\ X \in DOMAIN codes =>
                  \A i \in DOMAIN codes[X] :
                      normalize_code(codes[X][i]) # <<>> =>
                          fuzz_ratio(normalize_code(codes[X][i]),
                                     normalize_code(codes[X][i])) = 100

\* C26 witness: a twenty-letter program checked against a nineteen-letter one
\* that is its first nineteen letters: one critical flag either way
C26_Witness ==
    /\ plag_call.status = "returned"
    /\ DOMAIN plag_call.all_candidate_codes = {"c1", "c2"}
    /\ plag_call.all_candidate_codes["c1"] = << Rep("x", 17) \o <<"a", "b", "c">> >>
    /\ plag_call.all_candidate_codes["c2"] = << Rep("x", 17) \o <<"a", "b">> >>
    /\ plag_call.flags = <<CheatFlag("plagiarism", "critical")>>

\* C27: in every report the recommendation agrees with the reported
\* overall_integrity_score (rounded to one decimal): a flagged report whose
\* overall_integrity_score is >= 30 never has "reject", an unflagged one whose
\* overall_integrity_score is >= 60 never has "review".
C27_RecommendationMatchesReport ==
    report.status = "returned" =>
        /\ ( report.is_flagged /\ report.overall_integrity_score >= 3000 )
              => report.recommendation # "reject"
        /\ ( ~report.is_flagged /\ report.overall_integrity_score >= 6000 )
              => report.recommendation # "review"

PlagiarismFlags(fs) == SelectSeq(fs, LAMBDA f : f.flag_type = "plagiarism")
OtherFlags(fs) == SelectSeq(fs, LAMBDA f : f.flag_type # "plagiarism")

\* C28: the plagiarism score check_code_plagiarism returns is strictly above the
\* threshold exactly when its flag list holds a plagiarism flag; so in
\* full_integrity_check the flat 30-point plagiarism penalty is applied exactly
\* when a plagiarism flag is present, and a single matching pair lowers the
\* integrity score by at least 50 points before clamping.
C28_PlagiarismPenalty ==
    /\ plag_call.status = "returned" =>
          ( plag_call.max_similarity > PLAGIARISM_THRESHOLD
            <=> PlagiarismFlags(plag_call.flags) # <<>> )
    /\ report.status = "returned" =>
          LET plags   == PlagiarismFlags(report.flags)
              without == 10000 - 100 * StatedPenaltySum(OtherFlags(report.flags))
                         - ResumePenalty(resume_match_score)
              lowered == 100 * StatedPenaltySum(plags)
                         + (IF plags # <<>> THEN 3000 ELSE 0)
          IN  /\ report.plagiarism_score > PLAGIARISM_THRESHOLD <=> plags # <<>>
              /\ integrity_score = Clamp(without - lowered)
              /\ plags # <<>> => lowered >= 5000

\* C28 witness: a report with one matching pair and nothing else: 100 - 50
C28_Witness ==
    /\ report.status = "returned"
    /\ Len(report.flags) = 1
    /\ report.flags[1] = CheatFlag("plagiarism", "high")
    /\ integrity_score = 5000
====
